---------------------------- MODULE Spec2Model ----------------------------
(***************************************************************************)
(* WordPress media optimizer: the concurrent asset-transformation pipeline *)
(* of wp_media_optimizer_complete-2.py (threaded and sequential runs, the  *)
(* filesystem scan) and of wp_media_optimizer_enhanced.py.                 *)
(*                                                                         *)
(* File names are sequences of one-character strings, so that the          *)
(* filename cleaning is computed character by character as the code does.  *)
(* All files live in one uploads directory: the destination of an asset    *)
(* is always in the directory of its source, so that collisions can only   *)
(* happen inside one directory.                                            *)
(***************************************************************************)
EXTENDS Integers, Sequences, FiniteSets, TLC

(***************************************************************************)
(* Bounds of the model.                                                    *)
(***************************************************************************)
\* number of records the inventory query returns
NumAttachments == 4
\* config['optimization_settings']['chunk_size'] of the modelled run
ChunkSize == 3
\* config['optimization_settings']['max_threads'] of the modelled run
MaxWorkers == 2
\* threads and increments per thread of the counter specification
NumThreads == 3
IncrementsPerThread == 2

(***************************************************************************)
(* Characters and strings.                                                 *)
(***************************************************************************)
UpperCase == {"A", "B", "M"}
LowerCase == {"a", "b", "c", "d", "e", "h", "i", "m", "n", "o", "p", "t", "x", "z"}
DigitChars == <<"0", "1", "2", "3", "4", "5", "6", "7", "8", "9">>
WhiteSpace == {" "}

\* str.lower() on one character
Lower(c) ==
    CASE c = "A" -> "a"
      [] c = "B" -> "b"
      [] c = "M" -> "m"
      [] OTHER -> c

\* the regex class \w: letters, digits and the underscore
IsWordChar(c) ==
    c \in UpperCase \cup LowerCase \cup {"_"} \cup { DigitChars[i] : i \in 1..10 }

\* str(n) for a natural number n
RECURSIVE NumStr(_)
NumStr(n) ==
    IF n < 10 THEN <<DigitChars[n + 1]>>
    ELSE NumStr(n \div 10) \o <<DigitChars[(n % 10) + 1]>>

LowerStr(s) == [i \in 1..Len(s) |-> Lower(s[i])]

\* s[from..] as a sequence
Drop(s, n) == SubSeq(s, n + 1, Len(s))

\* whether pattern p matches s at position i, ignoring case (re.IGNORECASE)
MatchesAt(s, i, p) ==
    /\ i + Len(p) - 1 <= Len(s)
    /\ \A k \in 1..Len(p) : Lower(s[i + k - 1]) = Lower(p[k])

\* re.sub(p, '', s, flags=re.IGNORECASE) for a literal pattern p: leftmost,
\* non-overlapping matches are removed in one left-to-right pass
RECURSIVE RemovePatternFrom(_, _, _)
RemovePatternFrom(s, i, p) ==
    IF i > Len(s) THEN << >>
    ELSE IF Len(p) > 0 /\ MatchesAt(s, i, p)
         THEN RemovePatternFrom(s, i + Len(p), p)
         ELSE <<s[i]>> \o RemovePatternFrom(s, i + 1, p)

RemovePattern(s, p) == RemovePatternFrom(s, 1, p)

RECURSIVE RemovePatterns(_, _)
RemovePatterns(s, ps) ==
    IF ps = << >> THEN s
    ELSE RemovePatterns(RemovePattern(s, Head(ps)), Tail(ps))

\* re.sub(r'[^\w\s\-_]', '', s)
RemoveSpecialChars(s) ==
    SelectSeq(s, LAMBDA c : IsWordChar(c) \/ c \in WhiteSpace \/ c = "-")

\* re.sub(r'<class>+', rep, s): every maximal run of characters of cls
\* becomes the one character rep
RECURSIVE CollapseRuns(_, _, _)
CollapseRuns(s, cls, rep) ==
    IF s = << >> THEN << >>
    ELSE IF Head(s) \in cls
         THEN IF Len(s) > 1 /\ s[2] \in cls
              THEN CollapseRuns(Tail(s), cls, rep)
              ELSE <<rep>> \o CollapseRuns(Tail(s), cls, rep)
         ELSE <<Head(s)>> \o CollapseRuns(Tail(s), cls, rep)

\* str.strip(chars)
RECURSIVE LStrip(_, _)
LStrip(s, cs) ==
    IF s # << >> /\ Head(s) \in cs THEN LStrip(Tail(s), cs) ELSE s

RECURSIVE RStrip(_, _)
RStrip(s, cs) ==
    IF s # << >> /\ s[Len(s)] \in cs THEN RStrip(SubSeq(s, 1, Len(s) - 1), cs) ELSE s

Strip(s, cs) == RStrip(LStrip(s, cs), cs)

DefaultFilename ==
    <<"o", "p", "t", "i", "m", "i", "z", "e", "d", "-", "m", "e", "d", "i", "a">>

\* config['unwanted_patterns'] of the modelled run: one literal pattern
unwanted_patterns == << <<"a", "b">> >>

clean_filename(filename) ==
    IF filename = << >> THEN DefaultFilename
    ELSE LET c1 == RemovePatterns(filename, unwanted_patterns)
             c2 == RemoveSpecialChars(c1)
             c3 == CollapseRuns(c2, WhiteSpace, "-")
             c4 == CollapseRuns(c3, {"-", "_"}, "-")
             c5 == Strip(c4, {"-", "_"})
             c6 == LowerStr(c5)
         IN  IF c6 = << >> THEN DefaultFilename ELSE c6

clean_alt_text(alt_text) ==
    IF alt_text = << >> THEN << >>
    ELSE Strip(CollapseRuns(RemovePatterns(alt_text, unwanted_patterns), WhiteSpace, " "),
               WhiteSpace)

\* the default of the parameter max_keywords
max_keywords == 10

\* one category label to its keyword: lower-cased, [^\w\s] removed, runs of
\* white space to one hyphen, hyphens stripped from both ends
KeywordOf(category) ==
    Strip(CollapseRuns(SelectSeq(LowerStr(category),
                                 LAMBDA c : IsWordChar(c) \/ c \in WhiteSpace),
                       WhiteSpace, "-"),
          {"-"})

RECURSIVE KeywordsFrom(_, _)
KeywordsFrom(categories, keywords) ==
    IF categories = << >> THEN keywords
    ELSE LET keyword == KeywordOf(Head(categories))
         IN  KeywordsFrom(Tail(categories),
                 IF /\ keyword # << >>
                    /\ Len(keyword) > 2
                    /\ \A i \in 1..Len(keywords) : keywords[i] # keyword
                 THEN Append(keywords, keyword)
                 ELSE keywords)

\* the keywords of every label, the categories[:max_keywords] slice left out
process_categories_unsliced(categories_string) ==
    KeywordsFrom(SelectSeq([i \in 1..Len(categories_string) |->
                               Strip(categories_string[i], WhiteSpace)],
                           LAMBDA cat : cat # << >>),
                 << >>)

\* categories_string.split(',') is modelled by its result, the sequence of
\* labels; the labels are stripped and the empty ones dropped here
process_categories_to_keywords(categories_string) ==
    LET categories == SelectSeq([i \in 1..Len(categories_string) |->
                                    Strip(categories_string[i], WhiteSpace)],
                                LAMBDA cat : cat # << >>)
    IN  KeywordsFrom(SubSeq(categories, 1,
                            IF Len(categories) < max_keywords
                            THEN Len(categories) ELSE max_keywords),
                     << >>)

\* config['permalink_settings']['max_tags']
max_tags == 3

\* the permalink path, kept as its components: the tags joined into the
\* slug and the asset id (the date component is the record's own date)
generate_semantic_permalink(tags, asset_id) ==
    [tags |-> IF tags # << >>
              THEN SubSeq(tags, 1, IF Len(tags) < max_tags THEN Len(tags) ELSE max_tags)
              ELSE << <<"m", "e", "d", "i", "a">> >>,
     id |-> asset_id]

\* s[:n].rstrip(cs) when s is longer than n, else s
Truncate(s, n, cs) == IF Len(s) > n THEN RStrip(SubSeq(s, 1, n), cs) ELSE s

\* config['permalink_optimization']['max_slug_length'] of the default config
max_slug_length == 100

DefaultSlug ==
    <<"m", "e", "d", "i", "a", "-", "a", "t", "t", "a", "c", "h", "m", "e", "n", "t">>

\* generate_seo_slug: lower case, [^\w\s-] removed, runs of white space and
\* underscores to one hyphen, runs of hyphens to one, hyphens stripped
generate_seo_slug(title) ==
    IF title = << >> THEN DefaultSlug
    ELSE LET s1 == RemoveSpecialChars(LowerStr(title))
             s2 == CollapseRuns(s1, WhiteSpace \cup {"_"}, "-")
             s3 == CollapseRuns(s2, {"-"}, "-")
             s4 == Strip(s3, {"-"})
             s5 == Truncate(s4, max_slug_length, {"-"})
         IN  IF s5 = << >> THEN DefaultSlug ELSE s5

\* config['filename_optimization']['max_length'] of the default config
max_length == 200

\* optimize_filename with the default configuration: the name is made from
\* the title, or from the stem if there is no title
optimize_filename(original_stem, title) ==
    LET base_name == IF title # << >> THEN title ELSE original_stem
        b1 == RemoveSpecialChars(base_name)
        b2 == CollapseRuns(b1, WhiteSpace, "-")
        b3 == LowerStr(b2)
        b4 == Strip(CollapseRuns(b3, {"-", "_"}, "-"), {"-", "_"})
        b5 == Truncate(b4, max_length, {"-", "_"})
    IN  IF b5 = << >> THEN <<"m", "e", "d", "i", "a">> ELSE b5

(***************************************************************************)
(* Files, the metadata store and the inventory.                            *)
(***************************************************************************)
\* config['optimization_settings']['max_file_size_mb'] of the modelled run
max_file_size_mb == 1
\* how many environment faults (I/O error, store error, exception, a call
\* that never returns) one run may suffer
MaxFaults == 1

\* an optional string: Python's None, or a string
None == [some |-> FALSE, val |-> << >>]
Some(v) == [some |-> TRUE, val |-> v]
\* Python truthiness of an optional string
Truthy(x) == x.some /\ x.val # << >>

\* a path in the uploads directory: stem, extension, and what the backup
\* functions add to the name ("" for a file that is not a backup)
File(stem, ext) == [stem |-> stem, ext |-> ext, suffix |-> ""]
\* f"{file_path}_backup" and its temporary name
BackupPath(path) == [path EXCEPT !.suffix = "_backup"]
TempBackupPath(path) == [path EXCEPT !.suffix = "_backup.tmp"]
\* f"{file_path}_backup_{timestamp}"
TimestampedBackupPath(path) == [path EXCEPT !.suffix = "_backup_<timestamp>"]
\* f"backup_{stem}_{timestamp}{suffix}" in the directory of the file
PrefixedBackupPath(path) == [path EXCEPT !.suffix = "backup_<timestamp>"]

\* the bytes of a file: whose image it is (the path the image was first
\* stored under), its codec, its byte size, whether it decodes, whether it
\* carries IPTC metadata and whether its EXIF holds the WP_OPTIMIZER marker
Image(origin, size, decodable) ==
    [origin |-> origin, webp |-> origin.ext = ".webp", size |-> size,
     decodable |-> decodable, iptc |-> FALSE, marker |-> FALSE]

\* The candidate inventory rows with the file each refers to: the file
\* name, the post's title and slug, the alternate text, the category
\* labels, and the file's size and state on disk ("ok", "corrupt" or
\* "missing").
Catalog ==
    << [attached_file |-> File(<<"a">>, ".jpg"), post_title |-> <<"a">>,
        post_name |-> <<"a">>, alt_text |-> << >>,
        categories |-> << >>, size |-> max_file_size_mb, state |-> "ok"],
       [attached_file |-> File(<<"A">>, ".png"), post_title |-> <<"A">>,
        post_name |-> <<"a", "-", "2">>, alt_text |-> <<"a", " ", "a", "b">>,
        categories |-> << >>, size |-> max_file_size_mb, state |-> "ok"],
       [attached_file |-> File(<<"a">>, ".webp"), post_title |-> << >>,
        post_name |-> <<"a", "-", "1">>, alt_text |-> <<"a">>,
        categories |-> << <<"c", "a", "t">> >>, size |-> max_file_size_mb, state |-> "ok"],
       [attached_file |-> File(<<"b">>, ".webp"), post_title |-> <<"b">>,
        post_name |-> <<"b">>, alt_text |-> << >>,
        categories |-> << >>, size |-> max_file_size_mb, state |-> "ok"],
       [attached_file |-> File(<<"b", "!">>, ".bmp"), post_title |-> <<"B", "!">>,
        post_name |-> <<"b", "-", "2">>, alt_text |-> << >>,
        categories |-> << <<"C", "a", "t">>, <<"c", "a", "t">> >>,
        size |-> max_file_size_mb, state |-> "ok"],
       [attached_file |-> File(<<"b", "a">>, ".gif"), post_title |-> <<"b", "a">>,
        post_name |-> <<"b", "a">>, alt_text |-> << >>,
        categories |-> << >>, size |-> max_file_size_mb, state |-> "missing"],
       [attached_file |-> File(<<"d">>, ".jpg"), post_title |-> <<"d">>,
        post_name |-> <<"d">>, alt_text |-> << >>,
        categories |-> << >>, size |-> max_file_size_mb + 1, state |-> "ok"],
       [attached_file |-> File(<<"e">>, ".png"), post_title |-> <<"e", " ", "e">>,
        post_name |-> <<"e">>, alt_text |-> << >>,
        categories |-> << >>, size |-> max_file_size_mb, state |-> "corrupt"] >>

\* files on disk that no inventory row refers to
Orphans ==
    { [path |-> File(<<"B">>, ".jpg"), size |-> max_file_size_mb],
      [path |-> File(<<"o">>, ".webp"), size |-> max_file_size_mb],
      [path |-> File(<<"a", "-", "1", "x", "1">>, ".jpg"), size |-> max_file_size_mb] }

\* the inventories of n rows: n consecutive rows of the catalog, taken
\* cyclically from some row on
Selections(n, m) ==
    { [i \in 1..n |-> ((start + i - 2) % m) + 1] : start \in 1..m }

Min(a, b) == IF a < b THEN a ELSE b

\* one inventory row as the query returns it: the post ID is the row's
\* index in the catalog
AttachmentRow(k) ==
    [ID |-> k, attached_file |-> Catalog[k].attached_file,
     alt_text |-> Catalog[k].alt_text, categories |-> Catalog[k].categories]

\* no semantic permalink: the path under the uploads directory
NoPermalink == [tags |-> << >>, id |-> 0]

\* the address an attachment has before the run: under the uploads
\* directory, with no tag slug and no id in it
OriginalGuid(k) == [permalink |-> NoPermalink, file |-> Catalog[k].attached_file]

\* the store rows of an attachment: the columns of its posts row and its
\* postmeta values
StoreRow(k) ==
    [guid |-> OriginalGuid(k), attached_file |-> Catalog[k].attached_file,
     alt_text |-> Catalog[k].alt_text, optimizer_version |-> FALSE,
     optimizer_date |-> FALSE, post_title |-> Catalog[k].post_title,
     post_name |-> Catalog[k].post_name, webp_mime_type |-> FALSE,
     semantic_permalink |-> NoPermalink]

InitialDisk(rows) ==
    LET present == { k \in rows : Catalog[k].state # "missing" }
        taken == { Catalog[k].attached_file : k \in present }
        free == { o \in Orphans : o.path \notin taken }
    IN  [p \in taken \cup { o.path : o \in free } |->
            IF p \in taken
            THEN LET k == CHOOSE k \in present : Catalog[k].attached_file = p
                 IN  Image(p, Catalog[k].size, Catalog[k].state = "ok")
            ELSE LET o == CHOOSE o \in free : o.path = p
                 IN  Image(p, o.size, TRUE)]

(***************************************************************************)
(* State.                                                                  *)
(***************************************************************************)
VARIABLES
    inventory,            \* the post IDs of the attachments in the store
    dry_run,              \* the --dry-run flag
    disk,                 \* path -> image, for the paths that exist
    store,                \* post ID -> committed store row
    pending,              \* post ID -> row written but not committed
    autocommit,           \* the session's autocommit mode
    faults,               \* environment faults suffered so far
    main_pc,              \* where the main thread is
    attachments,          \* the rows get_media_attachments returned
    plan_i,               \* the planning loop's position in attachments
    attachment_tasks,     \* the planned tasks
    processed_db_files,   \* source paths seen by the planning loop
    chunk_idx,            \* the chunk being submitted or collected
    submit_i,             \* the next item of the chunk to submit
    future,               \* task -> state of its future
    yielded,              \* tasks whose future as_completed has yielded
    optimization_updates, \* the output sequence
    pc,                   \* task -> stage its worker is in
    update_info,          \* task -> outcome keys set on its update_info
    counters,             \* counter name -> value
    stages,               \* task -> what its worker has done, in order
    submissions,          \* task -> how many times it was submitted
    program,              \* which entry point runs
    scan_filesystem,      \* the --scan-filesystem flag
    to_walk,              \* candidate files the scan has not reached yet
    permalink_updates,    \* post IDs in self.permalink_updates
    outputs,              \* files written outside the uploads directory
    lock,                 \* ThreadSafeCounter._lock: its holder, or 0
    value,                \* ThreadSafeCounter._value
    tpc,                  \* thread -> where it is in increment()
    local,                \* thread -> the value it loaded
    returns,              \* thread -> the values its calls returned
    fn_call,              \* the function under test and its arguments
    fn_results            \* what its calls returned, in order

vars ==
    <<inventory, dry_run, disk, store, pending, autocommit, faults, main_pc,
      attachments, plan_i, attachment_tasks, processed_db_files, chunk_idx,
      submit_i, future, yielded, optimization_updates, pc, update_info, counters,
      stages, submissions, program, scan_filesystem, to_walk, permalink_updates,
      outputs, lock, value, tpc, local, returns, fn_call, fn_results>>

\* the state of a function under test
function_vars == <<fn_call, fn_results>>

\* the state of the sequential and the enhanced program and of the counter
\* under test, which the threaded run does not touch
other_programs ==
    <<program, scan_filesystem, to_walk, permalink_updates, outputs, lock, value,
      tpc, local, returns, function_vars>>

\* the state of the lone ThreadSafeCounter under test
counter_vars == <<lock, value, tpc, local, returns>>

\* the state of a run
run_vars ==
    <<inventory, dry_run, disk, store, pending, autocommit, faults, main_pc,
      attachments, plan_i, attachment_tasks, processed_db_files, chunk_idx,
      submit_i, future, yielded, optimization_updates, pc, update_info, counters,
      stages, submissions, program, scan_filesystem, to_walk, permalink_updates,
      outputs>>

Threads == 1..NumThreads

CounterNames ==
    {"processed", "errors", "webp_conversions", "iptc_processed",
     "alt_text_processed", "permalink_updates", "filesystem_processed"}

\* counters[name].increment(): the lock makes it one step
Increment(cs, name) == [cs EXCEPT ![name] = @ + 1]

Tasks == 1..Len(attachment_tasks)

\* the rows of the store, ORDER BY post_date DESC, ID DESC (one date)
RECURSIVE RowsDescending(_)
RowsDescending(ids) ==
    IF ids = {} THEN << >>
    ELSE LET top == CHOOSE k \in ids : \A j \in ids : j <= k
         IN  <<[ID |-> top, guid |-> store[top].guid,
                attached_file |-> store[top].attached_file,
                alt_text |-> store[top].alt_text,
                categories |-> Catalog[top].categories]>>
             \o RowsDescending(ids \ {top})

\* no function is under test
NoCall == fn_call = [fn |-> "none"] /\ fn_results = << >>

InitState(sel, prog, start) ==
    /\ program = prog
    /\ scan_filesystem \in (IF prog = "sequential" THEN BOOLEAN ELSE {FALSE})
    /\ to_walk = {}
    /\ permalink_updates = {}
    /\ outputs = {}
    /\ lock = 0
    /\ value = 0
    /\ tpc = [th \in Threads |-> "idle"]
    /\ local = [th \in Threads |-> 0]
    /\ returns = [th \in Threads |-> << >>]
    /\ inventory = { sel[i] : i \in 1..Len(sel) }
    /\ disk = InitialDisk({ sel[i] : i \in 1..Len(sel) })
    /\ store = [k \in { sel[i] : i \in 1..Len(sel) } |-> StoreRow(k)]
    /\ pending = << >>
    /\ autocommit = FALSE
    /\ faults = 0
    /\ main_pc = start
    /\ attachments = << >>
    /\ plan_i = 1
    /\ attachment_tasks = << >>
    /\ processed_db_files = {}
    /\ chunk_idx = 0
    /\ submit_i = 1
    /\ future = << >>
    /\ yielded = {}
    /\ optimization_updates = << >>
    /\ pc = << >>
    /\ update_info = << >>
    /\ counters = [n \in CounterNames |-> 0]
    /\ stages = << >>
    /\ submissions = << >>

InitRun(sel, prog, start) == NoCall /\ InitState(sel, prog, start)

Init ==
    /\ dry_run \in BOOLEAN
    /\ \E sel \in Selections(Min(NumAttachments, Len(Catalog)), Len(Catalog)) :
          InitRun(sel, "threaded", "fetch")

(***************************************************************************)
(* Inventory Source: get_media_attachments.                                *)
(***************************************************************************)
\* the query succeeds and returns the rows, or fails with a store error,
\* which the function turns into an empty list
get_media_attachments ==
    /\ main_pc = "fetch"
    /\ \/ /\ attachments' = RowsDescending(inventory)
          /\ UNCHANGED faults
       \/ /\ faults < MaxFaults
          /\ faults' = faults + 1
          /\ attachments' = << >>
    /\ main_pc' = IF attachments' = << >> THEN "done" ELSE "plan"
    /\ UNCHANGED <<inventory, dry_run, disk, store, pending, autocommit, plan_i,
                   attachment_tasks, processed_db_files, chunk_idx, submit_i, future,
                   yielded, optimization_updates, pc, update_info, counters, stages,
                   submissions>>
    /\ UNCHANGED other_programs

(***************************************************************************)
(* Task Planner: the planning loop of                                      *)
(* process_media_optimization_multithreaded.                               *)
(***************************************************************************)
WebpSourceExtensions == {".jpg", ".jpeg", ".png", ".gif", ".bmp", ".tiff"}

needs_rename(attachment) ==
    attachment.attached_file.stem # clean_filename(attachment.attached_file.stem)

needs_webp(attachment) == attachment.attached_file.ext \in WebpSourceExtensions

new_alt_text(attachment) ==
    IF attachment.alt_text # << >> THEN Some(clean_alt_text(attachment.alt_text)) ELSE None

needs_alt_update(attachment) ==
    attachment.alt_text # << >> /\ Some(attachment.alt_text) # new_alt_text(attachment)

has_keywords(attachment) ==
    process_categories_to_keywords(attachment.categories) # << >>

\* an emit condition that leaves the keyword set out
NeedsOptimizationWithoutKeywords(attachment) ==
    \/ needs_rename(attachment)
    \/ needs_webp(attachment)
    \/ needs_alt_update(attachment)

NeedsOptimization(attachment) ==
    \/ needs_rename(attachment)
    \/ needs_webp(attachment)
    \/ needs_alt_update(attachment)
    \/ has_keywords(attachment)

\* the destination: the cleaned stem with the .webp extension, in the
\* directory of the source
OptimizedPath(attached_file) == File(clean_filename(attached_file.stem), ".webp")

TaskData(attachment) ==
    LET keywords == process_categories_to_keywords(attachment.categories)
        permalink_path == generate_semantic_permalink(keywords, attachment.ID)
    IN  [attachment_id |-> attachment.ID,
         old_file_path |-> attachment.attached_file,
         optimized_file_path |-> OptimizedPath(attachment.attached_file),
         new_attached_file |-> OptimizedPath(attachment.attached_file),
         old_guid |-> attachment.guid,
         new_guid |-> [permalink |-> permalink_path,
                       file |-> OptimizedPath(attachment.attached_file)],
         old_alt_text |-> attachment.alt_text,
         new_alt_text |-> new_alt_text(attachment),
         keywords |-> keywords,
         needs_rename |-> needs_rename(attachment),
         needs_webp |-> needs_webp(attachment)]

\* a planner that takes every record's file to be there
FileFoundAlways(d, path) == TRUE

\* os.path.exists(old_file_path)
FileFound(d, path) == path \in DOMAIN d

\* one iteration of the loop over attachments
PlanAttachment ==
    /\ main_pc = "plan"
    /\ plan_i <= Len(attachments)
    /\ LET attachment == attachments[plan_i]
       IN  /\ processed_db_files' = processed_db_files \cup {attachment.attached_file}
           /\ attachment_tasks' =
                 IF /\ FileFound(disk, attachment.attached_file)
                    /\ NeedsOptimization(attachment)
                 THEN Append(attachment_tasks, TaskData(attachment))
                 ELSE attachment_tasks
    /\ plan_i' = plan_i + 1
    /\ UNCHANGED <<inventory, dry_run, disk, store, pending, autocommit, faults,
                   main_pc, attachments, chunk_idx, submit_i, future, yielded,
                   optimization_updates, pc, update_info, counters, stages,
                   submissions>>
    /\ UNCHANGED other_programs

(***************************************************************************)
(* Execution Coordinator: chunks, submission and collection.               *)
(***************************************************************************)
\* a split that drops a last chunk that is not full
NumChunksFloor(n) == n \div ChunkSize

\* len(range(0, n, chunk_size))
NumChunks(n) == (n + ChunkSize - 1) \div ChunkSize

\* chunks that start one item early: a slice [i - 1:i - 1 + chunk_size]
ChunkItemsOverlapping(k, n) ==
    [j \in 1..(Min(k * ChunkSize, n) - (k - 1) * ChunkSize) |->
        (k - 1) * ChunkSize + j - (k - 1)]

\* the task indices of chunk k: attachment_tasks[i:i + chunk_size] with
\* i = (k - 1) * chunk_size, counted from 0
ChunkItems(k, n) ==
    [j \in 1..(Min(k * ChunkSize, n) - (k - 1) * ChunkSize) |-> (k - 1) * ChunkSize + j]

\* a collection loop that waits for the first item of the chunk only
ChunkSetFirstOnly(k) == { (k - 1) * ChunkSize + 1 } \cap (1..Len(attachment_tasks))

ChunkSet(k) ==
    LET items == ChunkItems(k, Len(attachment_tasks))
    IN  { items[j] : j \in 1..Len(items) }

\* the planning loop is over: leave if nothing was planned, else open the
\* executor and turn to the first chunk
BeginChunks ==
    /\ main_pc = "plan"
    /\ plan_i > Len(attachments)
    /\ main_pc' = IF attachment_tasks = << >> THEN "done" ELSE "submit"
    /\ chunk_idx' = 1
    /\ submit_i' = 1
    /\ future' = [t \in Tasks |-> "none"]
    /\ pc' = [t \in Tasks |-> "idle"]
    /\ update_info' = [t \in Tasks |-> {}]
    /\ stages' = [t \in Tasks |-> << >>]
    /\ submissions' = [t \in Tasks |-> 0]
    /\ UNCHANGED <<inventory, dry_run, disk, store, pending, autocommit, faults,
                   attachments, plan_i, attachment_tasks, processed_db_files,
                   yielded, optimization_updates, counters>>
    /\ UNCHANGED other_programs

\* executor.submit for the next task of the chunk; after the last one the
\* main thread turns to as_completed
Submit ==
    /\ main_pc = "submit"
    /\ LET items == ChunkItems(chunk_idx, Len(attachment_tasks))
       IN  /\ submit_i <= Len(items)
           /\ future' = [future EXCEPT ![items[submit_i]] = "pending"]
           /\ submissions' = [submissions EXCEPT ![items[submit_i]] = @ + 1]
           /\ submit_i' = submit_i + 1
           /\ main_pc' = IF submit_i = Len(items) THEN "collect" ELSE "submit"
    /\ UNCHANGED <<inventory, dry_run, disk, store, pending, autocommit, faults,
                   attachments, plan_i, attachment_tasks, processed_db_files,
                   chunk_idx, yielded, optimization_updates, pc, update_info,
                   counters, stages>>
    /\ UNCHANGED other_programs

\* a collection that files every result under the first task
ResultEntryOfFirstTask(t, state) ==
    IF state = "returned"
    THEN [task |-> 1, copy |-> FALSE, keys |-> update_info[t]]
    ELSE [task |-> 1, copy |-> TRUE, keys |-> update_info[t] \cup {"processing_error"}]

\* an except clause that appends the update_info without the error
ResultEntryWithoutError(t, state) ==
    [task |-> t, copy |-> state # "returned", keys |-> update_info[t]]

\* what the main thread does with a future that as_completed yields:
\* future.result() returns the worker's update_info, or raises what the
\* worker raised, which the except clause turns into an error entry
ResultEntry(t, state) ==
    IF state = "returned"
    THEN [task |-> t, copy |-> FALSE, keys |-> update_info[t]]
    ELSE [task |-> t, copy |-> TRUE, keys |-> update_info[t] \cup {"processing_error"}]

\* a loop over the chunks that stops one chunk early
AfterChunkStopsEarly(k, n) == IF k + 1 < NumChunks(n) THEN "submit" ELSE "done"

\* the main thread after the chunk's last future was collected
AfterChunk(k, n) == IF k < NumChunks(n) THEN "submit" ELSE "done"

\* one iteration of the loop over as_completed(future_to_task)
Collect(t) ==
    /\ main_pc = "collect"
    /\ t \in ChunkSet(chunk_idx) \ yielded
    /\ future[t] \in {"returned", "raised"}
    /\ yielded' = yielded \cup {t}
    /\ optimization_updates' = Append(optimization_updates, ResultEntry(t, future[t]))
    /\ counters' = IF future[t] = "raised" THEN Increment(counters, "errors") ELSE counters
    /\ IF ChunkSet(chunk_idx) \subseteq yielded'
       THEN /\ main_pc' = AfterChunk(chunk_idx, Len(attachment_tasks))
            /\ chunk_idx' = chunk_idx + 1
            /\ submit_i' = 1
       ELSE UNCHANGED <<main_pc, chunk_idx, submit_i>>
    /\ UNCHANGED <<inventory, dry_run, disk, store, pending, autocommit, faults,
                   attachments, plan_i, attachment_tasks, processed_db_files,
                   future, pc, update_info, stages, submissions>>
    /\ UNCHANGED other_programs

(***************************************************************************)
(* Asset Pipeline: process_single_attachment and the functions it calls.   *)
(***************************************************************************)
\* validate_image_for_optimization: the file exists, is within the size
\* ceiling, is not a WebP file marked as optimized, and decodes
validate_image_for_optimization(d, image_path) ==
    /\ image_path \in DOMAIN d
    /\ d[image_path].size <= max_file_size_mb
    /\ ~(image_path.ext = ".webp" /\ d[image_path].marker)
    /\ d[image_path].decodable

\* d with the file at path set to image
WriteFile(d, path, image) ==
    [p \in DOMAIN d \cup {path} |-> IF p = path THEN image ELSE d[p]]

RemoveFile(d, path) == [p \in DOMAIN d \ {path} |-> d[p]]

BackupOutcomes == {"ok", "copy_error", "size_mismatch", "remove_error"}

\* a backup that renames the copy into place without comparing the sizes
create_backup_copy_unverified(d, file_path, outcome) ==
    CASE outcome = "ok" ->
            [ok |-> TRUE, disk |-> WriteFile(d, BackupPath(file_path), d[file_path])]
      [] outcome = "copy_error" ->
            [ok |-> FALSE, disk |-> d]
      [] OTHER ->
            [ok |-> TRUE,
             disk |-> WriteFile(d, BackupPath(file_path),
                                [d[file_path] EXCEPT !.size = 0, !.decodable = FALSE])]

\* create_backup_copy_threadsafe: copy to "<backup>.tmp", compare the
\* sizes, rename into place.  The disk afterwards, by outcome: the copy
\* raises; the copy is short and the temporary file is removed; the copy is
\* short and the removal fails too (the handler swallows that)
create_backup_copy_threadsafe(d, file_path, outcome) ==
    CASE outcome = "ok" ->
            [ok |-> TRUE, disk |-> WriteFile(d, BackupPath(file_path), d[file_path])]
      [] outcome = "copy_error" ->
            [ok |-> FALSE, disk |-> d]
      [] outcome = "size_mismatch" ->
            [ok |-> FALSE, disk |-> d]
      [] outcome = "remove_error" ->
            [ok |-> FALSE,
             disk |-> WriteFile(d, TempBackupPath(file_path),
                                [d[file_path] EXCEPT !.size = 0, !.decodable = FALSE])]

ConvertOutcomes == {"ok", "resave_large", "decode_error", "encode_error"}

\* the image img.save writes for the source image src
Encoded(src, size) ==
    [origin |-> src.origin, webp |-> TRUE, size |-> size, decodable |-> TRUE,
     iptc |-> FALSE, marker |-> FALSE]

\* convert_to_webp_threadsafe: validate, decode, save to output_path and,
\* if the output is over the ceiling, save once more at quality 70; any
\* exception is turned into a failure.  By outcome: the output fits (at
\* once or after the second save); it is over the ceiling even after the
\* second save; decoding raises; saving raises and leaves a partial file
convert_to_webp_threadsafe(d, image_path, output_path, outcome) ==
    IF ~validate_image_for_optimization(d, image_path)
    THEN [ok |-> FALSE, disk |-> d]
    ELSE CASE outcome = "ok" ->
                 [ok |-> TRUE,
                  disk |-> WriteFile(d, output_path, Encoded(d[image_path], max_file_size_mb))]
           [] outcome = "resave_large" ->
                 [ok |-> TRUE,
                  disk |-> WriteFile(d, output_path,
                                     Encoded(d[image_path], max_file_size_mb + 1))]
           [] outcome = "decode_error" ->
                 [ok |-> FALSE, disk |-> d]
           [] outcome = "encode_error" ->
                 [ok |-> FALSE,
                  disk |-> WriteFile(d, output_path,
                                     [Encoded(d[image_path], 0) EXCEPT !.decodable = FALSE])]

\* write_enhanced_iptc_threadsafe on success: the metadata is in the file
write_enhanced_iptc_threadsafe(d, image_path) ==
    IF image_path \in DOMAIN d
    THEN [d EXCEPT ![image_path].iptc = TRUE]
    ELSE d

\* the statements of update_database_threadsafe for a task, in order, each
\* as the store field it sets and the value
Statements(task) ==
    <<[field |-> "guid", value |-> task.new_guid],
      [field |-> "attached_file", value |-> task.new_attached_file]>>
    \o (IF Truthy(task.new_alt_text)
        THEN <<[field |-> "alt_text", value |-> task.new_alt_text.val]>>
        ELSE << >>)
    \o <<[field |-> "optimizer_version", value |-> TRUE],
         [field |-> "optimizer_date", value |-> TRUE]>>

\* a store row after the first n statements of stmts
RECURSIVE ApplyStatements(_, _, _)
ApplyStatements(row, stmts, n) ==
    IF n = 0 THEN row
    ELSE LET st == stmts[n]
             before == ApplyStatements(row, stmts, n - 1)
         IN  [before EXCEPT ![st.field] = st.value]

\* the rows a session sees: its own uncommitted writes over the store
Visible(id) == IF id \in DOMAIN pending THEN pending[id] ELSE store[id]

\* a pipeline that goes on to the backup in a dry run as well
StageAfterInDryRun(stage, ok, dry, keywords) ==
    CASE stage = "validate" -> IF ~ok THEN "return" ELSE "backup"
      [] stage = "backup" -> IF ok THEN "convert" ELSE "return"
      [] stage = "convert" ->
            IF ~ok THEN "return" ELSE IF keywords # << >> THEN "iptc" ELSE "db_begin"
      [] stage = "iptc" -> "db_begin"
      [] stage = "db_begin" -> IF ok THEN "db_exec" ELSE "return"
      [] stage = "db_exec" -> IF ok THEN "db_end" ELSE "return"
      [] OTHER -> "return"

\* a pipeline that counts the item as processed although its store update
\* failed
StageAfterIgnoringPersist(stage, ok, dry, keywords) ==
    CASE stage = "validate" ->
            IF ~ok THEN "return" ELSE IF dry THEN "return" ELSE "backup"
      [] stage = "backup" -> IF ok THEN "convert" ELSE "return"
      [] stage = "convert" ->
            IF ~ok THEN "return" ELSE IF keywords # << >> THEN "iptc" ELSE "db_begin"
      [] stage = "iptc" -> "db_begin"
      [] stage = "db_begin" -> IF ok THEN "db_exec" ELSE "return"
      [] stage = "db_exec" -> "db_end"
      [] OTHER -> "return"

\* a pipeline that updates the store without converting
StageAfterSkippingConvert(stage, ok, dry, keywords) ==
    CASE stage = "validate" ->
            IF ~ok THEN "return" ELSE IF dry THEN "return" ELSE "backup"
      [] stage = "backup" -> IF ok THEN "db_begin" ELSE "return"
      [] stage = "iptc" -> "db_begin"
      [] stage = "db_begin" -> IF ok THEN "db_exec" ELSE "return"
      [] stage = "db_exec" -> IF ok THEN "db_end" ELSE "return"
      [] OTHER -> "return"

\* a pipeline that goes on to convert although the backup failed
StageAfterIgnoringBackup(stage, ok, dry, keywords) ==
    CASE stage = "validate" ->
            IF ~ok THEN "return" ELSE IF dry THEN "return" ELSE "backup"
      [] stage = "backup" -> "convert"
      [] stage = "convert" ->
            IF ~ok THEN "return" ELSE IF keywords # << >> THEN "iptc" ELSE "db_begin"
      [] stage = "iptc" -> "db_begin"
      [] stage = "db_begin" -> IF ok THEN "db_exec" ELSE "return"
      [] stage = "db_exec" -> IF ok THEN "db_end" ELSE "return"
      [] OTHER -> "return"

\* the stage that follows a stage, by whether the stage succeeded:
\* process_single_attachment runs validate, backup, convert, IPTC (when
\* there are keywords) and the store update, and returns at the first of
\* validate, backup and convert that fails; a dry run returns after validate
StageAfter(stage, ok, dry, keywords) ==
    CASE stage = "validate" ->
            IF ~ok THEN "return" ELSE IF dry THEN "return" ELSE "backup"
      [] stage = "backup" -> IF ok THEN "convert" ELSE "return"
      [] stage = "convert" ->
            IF ~ok THEN "return" ELSE IF keywords # << >> THEN "iptc" ELSE "db_begin"
      [] stage = "iptc" -> "db_begin"
      [] stage = "db_begin" -> IF ok THEN "db_exec" ELSE "return"
      [] stage = "db_exec" -> IF ok THEN "db_end" ELSE "return"
      [] OTHER -> "return"

Running == { t \in DOMAIN future : future[t] = "running" }

\* a worker moves to the next stage, or returns its update_info
Advance(t, stage, ok) ==
    LET next == StageAfter(stage, ok, dry_run, attachment_tasks[t].keywords)
    IN  /\ stages' = [stages EXCEPT ![t] = Append(@, stage)]
        /\ IF next = "return"
           THEN /\ pc' = [pc EXCEPT ![t] = "returned"]
                /\ future' = [future EXCEPT ![t] = "returned"]
           ELSE /\ pc' = [pc EXCEPT ![t] = next]
                /\ UNCHANGED future

\* a pool that starts a thread for every submitted task
PoolAlwaysHasThread(running) == TRUE

\* ThreadPoolExecutor(max_workers=max_workers): a queued task is taken only
\* by one of the pool's max_workers threads, when it runs no other task
PoolHasIdleThread(running) == Cardinality(running) < MaxWorkers

\* a pool thread takes the oldest pending task off the work queue
WorkerStart(t) ==
    /\ t \in DOMAIN future
    /\ future[t] = "pending"
    /\ \A u \in DOMAIN future : future[u] = "pending" => t <= u
    /\ PoolHasIdleThread(Running)
    /\ future' = [future EXCEPT ![t] = "running"]
    /\ pc' = [pc EXCEPT ![t] = "validate"]
    /\ stages' = [stages EXCEPT ![t] = Append(@, "start")]
    /\ UNCHANGED <<inventory, dry_run, disk, store, pending, autocommit, faults,
                   main_pc, attachments, plan_i, attachment_tasks,
                   processed_db_files, chunk_idx, submit_i, yielded,
                   optimization_updates, update_info, counters, submissions>>
    /\ UNCHANGED other_programs

Validate(t) ==
    /\ t \in Running
    /\ pc[t] = "validate"
    /\ LET ok == validate_image_for_optimization(disk, attachment_tasks[t].old_file_path)
       IN  /\ Advance(t, "validate", ok)
           /\ IF ok /\ dry_run
              THEN /\ counters' = Increment(counters, "processed")
                   /\ update_info' = [update_info EXCEPT ![t] = @ \cup {"dry_run"}]
              ELSE UNCHANGED <<counters, update_info>>
    /\ UNCHANGED <<inventory, dry_run, disk, store, pending, autocommit, faults,
                   main_pc, attachments, plan_i, attachment_tasks,
                   processed_db_files, chunk_idx, submit_i, yielded,
                   optimization_updates, submissions>>
    /\ UNCHANGED other_programs

Backup(t) ==
    /\ t \in Running
    /\ pc[t] = "backup"
    /\ \E outcome \in BackupOutcomes :
          LET r == create_backup_copy_threadsafe(disk, attachment_tasks[t].old_file_path,
                                                 outcome)
          IN  /\ outcome # "ok" => faults < MaxFaults
              /\ faults' = IF outcome = "ok" THEN faults ELSE faults + 1
              /\ disk' = r.disk
              /\ Advance(t, "backup", r.ok)
              /\ counters' = IF r.ok THEN counters ELSE Increment(counters, "errors")
    /\ UNCHANGED <<inventory, dry_run, store, pending, autocommit, main_pc,
                   attachments, plan_i, attachment_tasks, processed_db_files,
                   chunk_idx, submit_i, yielded, optimization_updates, update_info,
                   submissions>>
    /\ UNCHANGED other_programs

Convert(t) ==
    /\ t \in Running
    /\ pc[t] = "convert"
    /\ \E outcome \in ConvertOutcomes :
          LET r == convert_to_webp_threadsafe(disk, attachment_tasks[t].old_file_path,
                                              attachment_tasks[t].optimized_file_path,
                                              outcome)
          IN  /\ outcome # "ok" =>
                    /\ faults < MaxFaults
                    /\ validate_image_for_optimization(disk,
                           attachment_tasks[t].old_file_path)
              /\ faults' = IF outcome = "ok" THEN faults ELSE faults + 1
              /\ disk' = r.disk
              /\ Advance(t, "convert", r.ok)
              /\ counters' = Increment(counters,
                                 IF r.ok THEN "webp_conversions" ELSE "errors")
              /\ update_info' =
                    [update_info EXCEPT ![t] =
                        @ \cup (IF r.ok THEN {"webp_converted", "conversion_result"}
                                ELSE {"conversion_error"})]
    /\ UNCHANGED <<inventory, dry_run, store, pending, autocommit, main_pc,
                   attachments, plan_i, attachment_tasks, processed_db_files,
                   chunk_idx, submit_i, yielded, optimization_updates, submissions>>
    /\ UNCHANGED other_programs

Iptc(t) ==
    /\ t \in Running
    /\ pc[t] = "iptc"
    /\ \/ /\ disk' = write_enhanced_iptc_threadsafe(disk,
                         attachment_tasks[t].optimized_file_path)
          /\ counters' = Increment(counters, "iptc_processed")
          /\ update_info' = [update_info EXCEPT ![t] = @ \cup {"iptc_added"}]
          /\ UNCHANGED faults
       \/ /\ faults < MaxFaults
          /\ faults' = faults + 1
          /\ UNCHANGED <<disk, counters, update_info>>
    /\ Advance(t, "iptc", TRUE)
    /\ UNCHANGED <<inventory, dry_run, store, pending, autocommit, main_pc,
                   attachments, plan_i, attachment_tasks, processed_db_files,
                   chunk_idx, submit_i, yielded, optimization_updates, submissions>>
    /\ UNCHANGED other_programs

\* the store after the session's open transaction is committed
Committed == [k \in DOMAIN store |-> Visible(k)]

\* update_database_threadsafe, first part: the cursor is opened and the
\* shared connection is switched to autocommit, which commits whatever
\* transaction the session has open
DbBegin(t) ==
    /\ t \in Running
    /\ pc[t] = "db_begin"
    /\ autocommit' = TRUE
    /\ store' = Committed
    /\ pending' = << >>
    /\ Advance(t, "db_begin", TRUE)
    /\ UNCHANGED <<inventory, dry_run, disk, faults, main_pc, attachments, plan_i,
                   attachment_tasks, processed_db_files, chunk_idx, submit_i, yielded,
                   optimization_updates, update_info, counters, submissions>>
    /\ UNCHANGED other_programs

\* the store and the open transaction after the first n statements of the
\* task ran on the shared connection in its current autocommit mode
StoreAfter(task, n) ==
    LET id == task.attachment_id
        row == ApplyStatements(Visible(id), Statements(task), n)
    IN  IF autocommit
        THEN [store |-> [store EXCEPT ![id] = row], pending |-> pending]
        ELSE [store |-> store,
              pending |-> [k \in DOMAIN pending \cup {id} |->
                              IF k = id THEN row ELSE pending[k]]]

\* update_database_threadsafe, the statements: all of them run, or the
\* n+1st raises a store Error, on which the function resets autocommit and
\* returns False
DbExec(t) ==
    /\ t \in Running
    /\ pc[t] = "db_exec"
    /\ LET task == attachment_tasks[t]
           total == Len(Statements(task))
       IN  \E n \in 0..total :
              /\ n < total => faults < MaxFaults
              /\ faults' = IF n < total THEN faults + 1 ELSE faults
              /\ store' = StoreAfter(task, n).store
              /\ pending' = StoreAfter(task, n).pending
              /\ autocommit' = IF n < total THEN FALSE ELSE autocommit
              /\ Advance(t, "db_exec", n = total)
              /\ counters' = IF n < total THEN Increment(counters, "errors") ELSE counters
              /\ update_info' = IF n < total
                                THEN [update_info EXCEPT ![t] = @ \cup {"database_error"}]
                                ELSE update_info
    /\ UNCHANGED <<inventory, dry_run, disk, main_pc, attachments, plan_i,
                   attachment_tasks, processed_db_files, chunk_idx, submit_i, yielded,
                   optimization_updates, submissions>>
    /\ UNCHANGED other_programs

\* update_database_threadsafe, last part: autocommit is reset and the
\* function returns True
DbEnd(t) ==
    /\ t \in Running
    /\ pc[t] = "db_end"
    /\ autocommit' = FALSE
    /\ Advance(t, "db_end", TRUE)
    /\ counters' = Increment(counters, "processed")
    /\ update_info' = [update_info EXCEPT ![t] = @ \cup {"database_updated"}]
    /\ UNCHANGED <<inventory, dry_run, disk, store, pending, faults, main_pc,
                   attachments, plan_i, attachment_tasks, processed_db_files,
                   chunk_idx, submit_i, yielded, optimization_updates, submissions>>
    /\ UNCHANGED other_programs

\* the stages whose callee lets an exception through: the store update
\* catches the driver's Error only
RaisingStages == {"db_exec"}

\* a handler that counts the error and then lets the exception through
HandlerOutcomeAlwaysRaised(handler_raises) == "raised"

\* the future's state after an exception reached the handler of
\* process_single_attachment: the handler records it and returns, unless
\* the handler itself raises
HandlerOutcome(handler_raises) == IF handler_raises THEN "raised" ELSE "returned"

\* an exception other than a store Error is raised inside the try block
WorkerException(t) ==
    /\ t \in Running
    /\ pc[t] \in RaisingStages
    /\ faults < MaxFaults
    /\ faults' = faults + 1
    /\ \E handler_raises \in BOOLEAN :
          /\ future' = [future EXCEPT ![t] = HandlerOutcome(handler_raises)]
          /\ pc' = [pc EXCEPT ![t] = HandlerOutcome(handler_raises)]
          /\ IF handler_raises
             THEN UNCHANGED <<counters, update_info>>
             ELSE /\ counters' = Increment(counters, "errors")
                  /\ update_info' = [update_info EXCEPT ![t] = @ \cup {"processing_error"}]
    /\ stages' = [stages EXCEPT ![t] = Append(@, "exception")]
    /\ UNCHANGED <<inventory, dry_run, disk, store, pending, autocommit, main_pc,
                   attachments, plan_i, attachment_tasks, processed_db_files,
                   chunk_idx, submit_i, yielded, optimization_updates, submissions>>
    /\ UNCHANGED other_programs

\* the stages with a blocking call that is modelled as able to block for
\* ever: the encoder and the store round trip
BlockingStages == {"convert", "db_exec"}

\* a blocking call of the stage never returns: the worker stays in the
\* stage for ever
WorkerHang(t) ==
    /\ t \in Running
    /\ pc[t] \in BlockingStages
    /\ faults < MaxFaults
    /\ faults' = faults + 1
    /\ pc' = [pc EXCEPT ![t] = "hung"]
    /\ UNCHANGED <<inventory, dry_run, disk, store, pending, autocommit, main_pc,
                   attachments, plan_i, attachment_tasks, processed_db_files,
                   chunk_idx, submit_i, future, yielded, optimization_updates,
                   update_info, counters, stages, submissions>>
    /\ UNCHANGED other_programs

MaxTasks == NumAttachments

Next ==
    \/ get_media_attachments
    \/ PlanAttachment
    \/ BeginChunks
    \/ Submit
    \/ \E t \in 1..MaxTasks : Collect(t)
    \/ \E t \in 1..MaxTasks : WorkerStart(t)
    \/ \E t \in 1..MaxTasks : Validate(t)
    \/ \E t \in 1..MaxTasks : Backup(t)
    \/ \E t \in 1..MaxTasks : Convert(t)
    \/ \E t \in 1..MaxTasks : Iptc(t)
    \/ \E t \in 1..MaxTasks : DbBegin(t)
    \/ \E t \in 1..MaxTasks : DbExec(t)
    \/ \E t \in 1..MaxTasks : DbEnd(t)
    \/ \E t \in 1..MaxTasks : WorkerException(t)
    \/ \E t \in 1..MaxTasks : WorkerHang(t)

Spec == Init /\ [][Next]_vars

FairSpec == Spec /\ WF_vars(Next)

(***************************************************************************)
(* ThreadSafeCounter: threads calling increment() on one counter, each     *)
(* bytecode-level step of the method on its own.                           *)
(***************************************************************************)
\* a lock that every thread may take at any time
CanAcquireAlways(l) == TRUE

\* threading.Lock: it can be taken when nobody holds it
CanAcquire(l) == l = 0

\* with self._lock: the thread blocks until it holds the lock
Acquire(th) ==
    /\ tpc[th] = "idle"
    /\ Len(returns[th]) < IncrementsPerThread
    /\ CanAcquire(lock)
    /\ lock' = th
    /\ tpc' = [tpc EXCEPT ![th] = "load"]
    /\ UNCHANGED <<value, local, returns, run_vars, function_vars>>

\* self._value += 1, first half: the attribute is loaded
Load(th) ==
    /\ tpc[th] = "load"
    /\ local' = [local EXCEPT ![th] = value]
    /\ tpc' = [tpc EXCEPT ![th] = "store"]
    /\ UNCHANGED <<lock, value, returns, run_vars, function_vars>>

\* self._value += 1, second half: the sum is stored
Store(th) ==
    /\ tpc[th] = "store"
    /\ value' = local[th] + 1
    /\ tpc' = [tpc EXCEPT ![th] = "return"]
    /\ UNCHANGED <<lock, local, returns, run_vars, function_vars>>

\* return self._value, and the lock is released on leaving the with block
Return(th) ==
    /\ tpc[th] = "return"
    /\ returns' = [returns EXCEPT ![th] = Append(@, value)]
    /\ lock' = 0
    /\ tpc' = [tpc EXCEPT ![th] = "idle"]
    /\ UNCHANGED <<value, local, run_vars, function_vars>>

InitCounter ==
    /\ dry_run = FALSE
    /\ InitRun(<<1>>, "counter", "done")

NextCounter ==
    \/ \E th \in Threads : Acquire(th)
    \/ \E th \in Threads : Load(th)
    \/ \E th \in Threads : Store(th)
    \/ \E th \in Threads : Return(th)

SpecCounter == InitCounter /\ [][NextCounter]_vars

(***************************************************************************)
(* The sequential program: process_media_optimization, the functions it    *)
(* calls and the filesystem scan.  The connection is the program's own, in *)
(* the driver's default mode: writes are pending until commit().           *)
(***************************************************************************)
\* what a session sees of a row: its own uncommitted write, or the store
DbVisible(db, id) == IF id \in DOMAIN db.pending THEN db.pending[id] ELSE db.store[id]

\* the first n statements of stmts are executed for the row id
DbExecute(db, id, stmts, n) ==
    [store |-> db.store,
     pending |-> [k \in DOMAIN db.pending \cup {id} |->
                     IF k = id THEN ApplyStatements(DbVisible(db, id), stmts, n)
                     ELSE db.pending[k]]]

\* connection.commit()
DbCommit(db) == [store |-> [k \in DOMAIN db.store |-> DbVisible(db, k)], pending |-> << >>]

\* connection.rollback()
DbRollback(db) == [store |-> db.store, pending |-> << >>]

\* create_backup_copy: copy to the timestamped name and compare the sizes.
\* By outcome: the copy is whole; the copy raises; the copy is short, which
\* is reported and the short file stays
create_backup_copy(d, file_path, outcome) ==
    CASE outcome = "ok" ->
            [ok |-> TRUE,
             disk |-> WriteFile(d, TimestampedBackupPath(file_path), d[file_path])]
      [] outcome = "size_mismatch" ->
            [ok |-> FALSE,
             disk |-> WriteFile(d, TimestampedBackupPath(file_path),
                                [d[file_path] EXCEPT !.size = 0, !.decodable = FALSE])]
      [] OTHER -> [ok |-> FALSE, disk |-> d]

\* convert_to_webp: decode, save to output_path and, if the output is over
\* the ceiling, save once more at quality 70; True unless something raised
convert_to_webp(d, image_path, output_path, outcome) ==
    IF image_path \notin DOMAIN d \/ ~d[image_path].decodable
    THEN [ok |-> FALSE, disk |-> d]
    ELSE CASE outcome = "ok" ->
                 [ok |-> TRUE,
                  disk |-> WriteFile(d, output_path, Encoded(d[image_path], max_file_size_mb))]
           [] outcome = "resave_large" ->
                 [ok |-> TRUE,
                  disk |-> WriteFile(d, output_path,
                                     Encoded(d[image_path], max_file_size_mb + 1))]
           [] outcome = "encode_error" ->
                 [ok |-> FALSE,
                  disk |-> WriteFile(d, output_path,
                                     [Encoded(d[image_path], 0) EXCEPT !.decodable = FALSE])]
           [] OTHER -> [ok |-> FALSE, disk |-> d]

\* write_enhanced_iptc: the metadata is saved into the file, unless the
\* file is not there or the library raises
write_enhanced_iptc(d, image_path, library_ok) ==
    IF library_ok /\ image_path \in DOMAIN d
    THEN [ok |-> TRUE, disk |-> [d EXCEPT ![image_path].iptc = TRUE]]
    ELSE [ok |-> FALSE, disk |-> d]

\* directory.glob(f"{old_filename}-*x*{old_extension}")
IsSizeVariant(p, old) ==
    /\ p.suffix = ""
    /\ p.ext = old.ext
    /\ Len(p.stem) >= Len(old.stem) + 2
    /\ SubSeq(p.stem, 1, Len(old.stem) + 1) = old.stem \o <<"-">>
    /\ \E i \in (Len(old.stem) + 2)..Len(p.stem) : p.stem[i] = "x"

\* the loop of handle_wordpress_image_sizes over the related files: each
\* is converted to the new name with its size suffix and then copied to
\* its backup name
RECURSIVE ConvertVariants(_, _, _, _)
ConvertVariants(d, related, old, new) ==
    IF related = {} THEN [count |-> 0, disk |-> d]
    ELSE LET f == CHOOSE x \in related : TRUE
             size_suffix == SubSeq(f.stem, Len(old.stem) + 1, Len(f.stem))
             r == convert_to_webp(d, f, File(new.stem \o size_suffix, ".webp"), "ok")
             d2 == IF r.ok THEN WriteFile(r.disk, BackupPath(f), r.disk[f]) ELSE r.disk
             rest == ConvertVariants(d2, related \ {f}, old, new)
         IN  [count |-> rest.count + (IF r.ok THEN 1 ELSE 0), disk |-> rest.disk]

handle_wordpress_image_sizes(d, old_file_path, new_file_path) ==
    ConvertVariants(d, { p \in DOMAIN d : IsSizeVariant(p, old_file_path) },
                    old_file_path, new_file_path)

\* update_attachment_metadata: the MIME type is set and committed; a store
\* Error rolls the transaction back
update_attachment_metadata(db, attachment_id, store_ok) ==
    IF store_ok
    THEN [ok |-> TRUE,
          db |-> DbCommit(DbExecute(db, attachment_id,
                                    <<[field |-> "webp_mime_type", value |-> TRUE]>>, 1))]
    ELSE [ok |-> FALSE, db |-> DbRollback(db)]

\* the statements of update_database_urls_and_permalinks on the rows of
\* the attachment
UrlStatements(task) ==
    <<[field |-> "guid", value |-> task.new_guid],
      [field |-> "attached_file", value |-> task.new_attached_file]>>
    \o (IF task.new_alt_text.some
        THEN <<[field |-> "alt_text", value |-> task.new_alt_text.val]>>
        ELSE << >>)
    \o <<[field |-> "semantic_permalink", value |-> task.new_guid.permalink]>>

\* update_database_urls_and_permalinks: all statements and a commit, or a
\* store Error after the first n statements and a rollback
update_database_urls_and_permalinks(db, task, n) ==
    IF n = Len(UrlStatements(task))
    THEN [ok |-> TRUE, db |-> DbCommit(DbExecute(db, task.attachment_id, UrlStatements(task), n))]
    ELSE [ok |-> FALSE, db |-> DbRollback(DbExecute(db, task.attachment_id, UrlStatements(task), n))]

SequentialWebpExtensions == {".jpg", ".jpeg", ".png", ".gif"}

\* the update_info of the sequential loop, with the paths
SequentialTask(attachment) ==
    [TaskData(attachment) EXCEPT
        !.needs_webp = attachment.attached_file.ext \in SequentialWebpExtensions]

SequentialNeedsOptimization(attachment) ==
    \/ needs_rename(attachment)
    \/ attachment.attached_file.ext \in SequentialWebpExtensions
    \/ needs_alt_update(attachment)
    \/ has_keywords(attachment)

\* the state that only the threaded run uses
threaded_only ==
    <<autocommit, chunk_idx, submit_i, future, yielded, pc, stages, submissions>>

\* what no step of a run changes
fixed == <<inventory, dry_run, program, scan_filesystem>>

\* the item the loop is working on: the last one appended
Current == Len(attachment_tasks)

\* the session of the program's connection
Session == [store |-> store, pending |-> pending]

\* process_media_optimization up to its early return
SequentialFetch ==
    /\ main_pc = "seq_fetch"
    /\ \/ /\ attachments' = RowsDescending(inventory)
          /\ UNCHANGED faults
       \/ /\ faults < MaxFaults
          /\ faults' = faults + 1
          /\ attachments' = << >>
    /\ main_pc' = IF attachments' = << >> /\ ~scan_filesystem THEN "done" ELSE "seq_loop"
    /\ UNCHANGED <<disk, store, pending, plan_i, attachment_tasks,
                   processed_db_files, optimization_updates, update_info,
                   counters, to_walk, permalink_updates, outputs, fixed,
                   threaded_only, counter_vars, function_vars>>

\* the head of one iteration of the loop over the attachments, down to the
\* branch on dry_run: a record that is skipped, a dry-run report, or the
\* start of the live branch
SequentialItem ==
    /\ main_pc = "seq_loop"
    /\ plan_i <= Len(attachments)
    /\ LET attachment == attachments[plan_i]
           worked == /\ FileFound(disk, attachment.attached_file)
                     /\ SequentialNeedsOptimization(attachment)
       IN  /\ processed_db_files' = processed_db_files \cup {attachment.attached_file}
           /\ attachment_tasks' = IF worked
                                  THEN Append(attachment_tasks, SequentialTask(attachment))
                                  ELSE attachment_tasks
           /\ update_info' = IF worked THEN Append(update_info, {}) ELSE update_info
           /\ main_pc' = IF worked /\ ~dry_run THEN "seq_backup" ELSE "seq_loop"
           /\ plan_i' = IF worked /\ ~dry_run THEN plan_i ELSE plan_i + 1
           /\ counters' = IF worked /\ dry_run
                          THEN Increment(counters, "processed")
                          ELSE counters
           /\ optimization_updates' =
                 IF worked /\ dry_run
                 THEN Append(optimization_updates,
                             [task |-> attachment.ID, copy |-> FALSE, keys |-> {}])
                 ELSE optimization_updates
    /\ UNCHANGED <<disk, store, pending, faults, attachments, to_walk,
                   permalink_updates, outputs, fixed, threaded_only, counter_vars, function_vars>>

\* backup_path = create_backup_copy(...): the result is not looked at
SequentialBackup ==
    /\ main_pc = "seq_backup"
    /\ \E outcome \in {"ok", "copy_error", "size_mismatch"} :
          /\ outcome # "ok" => faults < MaxFaults
          /\ faults' = IF outcome = "ok" THEN faults ELSE faults + 1
          /\ disk' = create_backup_copy(disk, attachment_tasks[Current].old_file_path,
                                        outcome).disk
    /\ main_pc' = "seq_convert"
    /\ UNCHANGED <<store, pending, attachments, plan_i, attachment_tasks,
                   processed_db_files, optimization_updates, update_info, counters,
                   to_walk, permalink_updates, outputs, fixed, threaded_only,
                   counter_vars, function_vars>>

\* the conversion, if the format needs it
SequentialConvert ==
    /\ main_pc = "seq_convert"
    /\ attachment_tasks[Current].needs_webp
    /\ \E outcome \in {"ok", "resave_large", "decode_error", "encode_error"} :
          LET task == attachment_tasks[Current]
              r == convert_to_webp(disk, task.old_file_path, task.optimized_file_path,
                                   outcome)
          IN  /\ outcome # "ok" => faults < MaxFaults
              /\ faults' = IF outcome = "ok" THEN faults ELSE faults + 1
              /\ disk' = r.disk
              /\ counters' = IF r.ok THEN Increment(counters, "webp_conversions")
                             ELSE counters
              /\ update_info' =
                    IF r.ok
                    THEN [update_info EXCEPT ![Current] =
                             @ \cup {"webp_converted", "file_size_reduction"}]
                    ELSE update_info
    /\ main_pc' = "seq_iptc"
    /\ UNCHANGED <<store, pending, attachments, plan_i, attachment_tasks,
                   processed_db_files, optimization_updates, to_walk,
                   permalink_updates, outputs, fixed, threaded_only, counter_vars, function_vars>>

\* no conversion: the file is copied to the new name if the name changes;
\* shutil.copy2 may raise, which ends the iteration in the except clause
SequentialRename ==
    /\ main_pc = "seq_convert"
    /\ ~attachment_tasks[Current].needs_webp
    /\ LET task == attachment_tasks[Current]
       IN  \/ /\ disk' = IF task.needs_rename
                         THEN WriteFile(disk, task.optimized_file_path,
                                        disk[task.old_file_path])
                         ELSE disk
              /\ main_pc' = "seq_iptc"
              /\ UNCHANGED <<faults, counters, plan_i>>
           \/ /\ task.needs_rename
              /\ faults < MaxFaults
              /\ faults' = faults + 1
              /\ counters' = Increment(counters, "errors")
              /\ plan_i' = plan_i + 1
              /\ main_pc' = "seq_loop"
              /\ UNCHANGED disk
    /\ UNCHANGED <<store, pending, attachments, attachment_tasks,
                   processed_db_files, optimization_updates, update_info, to_walk,
                   permalink_updates, outputs, fixed, threaded_only, counter_vars, function_vars>>

\* the IPTC metadata is written to the optimized path, whatever the
\* conversion did
SequentialIptc ==
    /\ main_pc = "seq_iptc"
    /\ \E library_ok \in BOOLEAN :
          LET r == write_enhanced_iptc(disk, attachment_tasks[Current].optimized_file_path,
                                       library_ok)
          IN  /\ ~library_ok => faults < MaxFaults
              /\ faults' = IF library_ok THEN faults ELSE faults + 1
              /\ disk' = r.disk
              /\ counters' = IF r.ok THEN Increment(counters, "iptc_processed")
                             ELSE counters
              /\ update_info' = IF r.ok
                                THEN [update_info EXCEPT ![Current] = @ \cup {"iptc_added"}]
                                ELSE update_info
    /\ main_pc' = "seq_variants"
    /\ UNCHANGED <<store, pending, attachments, plan_i, attachment_tasks,
                   processed_db_files, optimization_updates, to_walk,
                   permalink_updates, outputs, fixed, threaded_only, counter_vars, function_vars>>

\* config['optimization_settings']['process_thumbnails'] is on
SequentialVariants ==
    /\ main_pc = "seq_variants"
    /\ disk' = handle_wordpress_image_sizes(disk, attachment_tasks[Current].old_file_path,
                   attachment_tasks[Current].optimized_file_path).disk
    /\ main_pc' = "seq_metadata"
    /\ UNCHANGED <<store, pending, faults, attachments, plan_i, attachment_tasks,
                   processed_db_files, optimization_updates, update_info, counters,
                   to_walk, permalink_updates, outputs, fixed, threaded_only,
                   counter_vars, function_vars>>

SequentialMetadata ==
    /\ main_pc = "seq_metadata"
    /\ \E store_ok \in BOOLEAN :
          LET r == update_attachment_metadata(Session,
                       attachment_tasks[Current].attachment_id, store_ok)
          IN  /\ ~store_ok => faults < MaxFaults
              /\ faults' = IF store_ok THEN faults ELSE faults + 1
              /\ store' = r.db.store
              /\ pending' = r.db.pending
    /\ main_pc' = "seq_urls"
    /\ UNCHANGED <<disk, attachments, plan_i, attachment_tasks, processed_db_files,
                   optimization_updates, update_info, counters, to_walk,
                   permalink_updates, outputs, fixed, threaded_only, counter_vars, function_vars>>

\* the counters after update_database_urls_and_permalinks
CountersAfterUrls(cs, ok, alt_update) ==
    IF ok
    THEN LET c1 == Increment(cs, "permalink_updates")
             c2 == IF alt_update THEN Increment(c1, "alt_text_processed") ELSE c1
         IN  Increment(c2, "processed")
    ELSE Increment(cs, "errors")

\* the store update, and the end of the iteration: the update_info is
\* appended to the output
SequentialUrls ==
    /\ main_pc = "seq_urls"
    /\ LET task == attachment_tasks[Current]
           total == Len(UrlStatements(task))
       IN  \E n \in 0..total :
              LET r == update_database_urls_and_permalinks(Session, task, n)
              IN  /\ n < total => faults < MaxFaults
                  /\ faults' = IF n < total THEN faults + 1 ELSE faults
                  /\ store' = r.db.store
                  /\ pending' = r.db.pending
                  /\ counters' =
                        CountersAfterUrls(counters, r.ok,
                            task.old_alt_text # << >>
                              /\ Some(task.old_alt_text) # task.new_alt_text)
                  /\ optimization_updates' =
                        Append(optimization_updates,
                               [task |-> task.attachment_id, copy |-> FALSE,
                                keys |-> update_info[Current]
                                           \cup (IF r.ok THEN {"permalink_updated"}
                                                 ELSE {})])
    /\ plan_i' = plan_i + 1
    /\ main_pc' = "seq_loop"
    /\ UNCHANGED <<disk, attachments, attachment_tasks, processed_db_files,
                   update_info, to_walk, permalink_updates, outputs, fixed,
                   threaded_only, counter_vars, function_vars>>

ScanImageExtensions == {".jpg", ".jpeg", ".png", ".gif", ".tif", ".tiff", ".bmp"}

ScanWebpExtensions == {".jpg", ".jpeg", ".png"}

ScanFaults ==
    {"none", "copy_error", "size_mismatch", "resave_large", "decode_error",
     "encode_error", "iptc_error"}

\* a scan that does not look at the files the loop over the attachments saw
IsScanCandidateIgnoringSeen(file_path) ==
    /\ file_path.suffix = ""
    /\ file_path.ext \in ScanImageExtensions
    /\ \/ file_path.stem # clean_filename(file_path.stem)
       \/ file_path.ext \in ScanWebpExtensions

\* the file name ends with an image extension, the file was not seen by the
\* loop over the attachments, and its name needs cleaning or its format
\* conversion
IsScanCandidate(file_path) ==
    /\ file_path.suffix = ""
    /\ file_path.ext \in ScanImageExtensions
    /\ file_path \notin processed_db_files
    /\ \/ file_path.stem # clean_filename(file_path.stem)
       \/ file_path.ext \in ScanWebpExtensions

\* the loop is over: the report is written, or the scan starts.  Of the
\* files os.walk lists, the scan does something only with the candidates;
\* it reaches them in any order.
SequentialLoopEnd ==
    /\ main_pc = "seq_loop"
    /\ plan_i > Len(attachments)
    /\ main_pc' = IF scan_filesystem THEN "scan" ELSE "report"
    /\ to_walk' = IF scan_filesystem
                  THEN { file_path \in DOMAIN disk : IsScanCandidate(file_path) }
                  ELSE to_walk
    /\ UNCHANGED <<disk, store, pending, faults, attachments, plan_i,
                   attachment_tasks, processed_db_files,
                   optimization_updates, update_info, counters,
                   permalink_updates, outputs, fixed, threaded_only,
                   counter_vars, function_vars>>

\* a scan that converts an orphan without a backup
ScanLiveWithoutBackup(d, cs, file_path, fault) ==
    LET new_file_path == File(clean_filename(file_path.stem), ".webp")
        c == convert_to_webp(d, file_path, new_file_path,
                 IF fault \in {"resave_large", "decode_error", "encode_error"}
                 THEN fault ELSE "ok")
        i == write_enhanced_iptc(c.disk, new_file_path, fault # "iptc_error")
    IN  IF c.ok
        THEN [disk |-> i.disk, counters |-> Increment(cs, "filesystem_processed"),
              keys |-> {"filesystem_only", "webp_converted", "iptc_added"}]
        ELSE [disk |-> c.disk, counters |-> cs, keys |-> {"filesystem_only"}]

\* the live branch of scan_filesystem_for_optimization for one file
ScanLive(d, cs, file_path, fault) ==
    LET new_file_path == File(clean_filename(file_path.stem), ".webp")
        b == create_backup_copy(d, file_path,
                 IF fault \in {"copy_error", "size_mismatch"} THEN fault ELSE "ok")
        c == convert_to_webp(b.disk, file_path, new_file_path,
                 IF fault \in {"resave_large", "decode_error", "encode_error"}
                 THEN fault ELSE "ok")
        i == write_enhanced_iptc(c.disk, new_file_path, fault # "iptc_error")
    IN  IF c.ok
        THEN [disk |-> i.disk, counters |-> Increment(cs, "filesystem_processed"),
              keys |-> {"filesystem_only", "webp_converted", "iptc_added"}]
        ELSE [disk |-> c.disk, counters |-> cs, keys |-> {"filesystem_only"}]

\* one iteration of the loops of scan_filesystem_for_optimization
ScanFile(file_path) ==
    /\ main_pc = "scan"
    /\ file_path \in to_walk
    /\ to_walk' = to_walk \ {file_path}
    /\ LET entry(keys) == [task |-> 0, copy |-> FALSE, keys |-> keys]
       IN  IF dry_run
           THEN /\ optimization_updates' =
                      Append(optimization_updates, entry({"filesystem_only"}))
                /\ UNCHANGED <<disk, faults, counters>>
           ELSE \E fault \in ScanFaults :
                   LET r == ScanLive(disk, counters, file_path, fault)
                   IN  /\ fault # "none" => faults < MaxFaults
                       /\ faults' = IF fault = "none" THEN faults ELSE faults + 1
                       /\ disk' = r.disk
                       /\ counters' = r.counters
                       /\ optimization_updates' =
                             Append(optimization_updates, entry(r.keys))
    /\ UNCHANGED <<store, pending, main_pc, attachments, plan_i, attachment_tasks,
                   processed_db_files, update_info, permalink_updates, outputs,
                   fixed, threaded_only, counter_vars, function_vars>>

\* the scan has walked every file
ScanEnd ==
    /\ main_pc = "scan"
    /\ to_walk = {}
    /\ main_pc' = "report"
    /\ UNCHANGED <<disk, store, pending, faults, attachments, plan_i,
                   attachment_tasks, processed_db_files,
                   optimization_updates, update_info, counters, to_walk,
                   permalink_updates, outputs, fixed, threaded_only,
                   counter_vars, function_vars>>

\* generate_optimization_report, if there is anything to report, and the
\* summary
SequentialReport ==
    /\ main_pc = "report"
    /\ outputs' = IF optimization_updates # << >>
                  THEN outputs \cup {"optimization_report.txt"}
                  ELSE outputs
    /\ main_pc' = "done"
    /\ UNCHANGED <<disk, store, pending, faults, attachments, plan_i,
                   attachment_tasks, processed_db_files,
                   optimization_updates, update_info, counters, to_walk,
                   permalink_updates, fixed, threaded_only, counter_vars, function_vars>>

InitSequential ==
    /\ dry_run \in BOOLEAN
    /\ \E sel \in Selections(Min(NumAttachments, Len(Catalog)), Len(Catalog))
                        \cup {<< >>} :
          InitRun(sel, "sequential", "seq_fetch")

NextSequential ==
    \/ SequentialFetch
    \/ SequentialItem
    \/ SequentialBackup
    \/ SequentialConvert
    \/ SequentialRename
    \/ SequentialIptc
    \/ SequentialVariants
    \/ SequentialMetadata
    \/ SequentialUrls
    \/ SequentialLoopEnd
    \/ \E file_path \in DOMAIN disk : ScanFile(file_path)
    \/ ScanEnd
    \/ SequentialReport

SpecSequential == InitSequential /\ [][NextSequential]_vars

(***************************************************************************)
(* The enhanced program: WordPressMediaOptimizerEnhanced.run_optimization  *)
(* with the default configuration.                                         *)
(***************************************************************************)
\* the rows of the enhanced query, ORDER BY p.ID DESC
RECURSIVE EnhancedRows(_)
EnhancedRows(ids) ==
    IF ids = {} THEN << >>
    ELSE LET top == CHOOSE k \in ids : \A j \in ids : j <= k
         IN  <<[ID |-> top, post_title |-> store[top].post_title,
                file_path |-> store[top].attached_file]>>
             \o EnhancedRows(ids \ {top})

\* attachment['post_title'] or f"Media {attachment_id}"
TitleOf(attachment) ==
    IF attachment.post_title # << >> THEN attachment.post_title
    ELSE <<"M", "e", "d", "i", "a", " ">> \o NumStr(attachment.ID)

\* the paths and names process_attachment works with
EnhancedTask(attachment) ==
    [attachment_id |-> attachment.ID,
     title |-> TitleOf(attachment),
     old_file_path |-> attachment.file_path,
     optimized_file_path |->
         File(optimize_filename(attachment.file_path.stem, TitleOf(attachment)), ".webp")]

\* the last value of the counter that ensure_unique_slug tries
MaxSlugCounter == 100

\* another post has the slug as its post_name
SlugTaken(db, slug, attachment_id) ==
    \E k \in DOMAIN db.store \ {attachment_id} : DbVisible(db, k).post_name = slug

WithNumber(slug, n) == slug \o <<"-">> \o NumStr(n)

RECURSIVE FirstFreeSlug(_, _, _, _)
\* the while loop of ensure_unique_slug from counter on
FirstFreeSlug(db, original_slug, attachment_id, counter) ==
    IF counter > MaxSlugCounter THEN WithNumber(original_slug, attachment_id)
    ELSE IF ~SlugTaken(db, WithNumber(original_slug, counter), attachment_id)
         THEN WithNumber(original_slug, counter)
         ELSE FirstFreeSlug(db, original_slug, attachment_id, counter + 1)

\* ensure_unique_slug: the slug, or the slug with the first free number; if
\* the store fails, the slug with the post ID
ensure_unique_slug(db, slug, attachment_id, store_ok) ==
    IF ~store_ok THEN WithNumber(slug, attachment_id)
    ELSE IF SlugTaken(db, slug, attachment_id)
         THEN FirstFreeSlug(db, slug, attachment_id, 1)
         ELSE slug

\* WordPressMediaOptimizerEnhanced.convert_to_webp: decode and save
enhanced_convert_to_webp(d, input_path, output_path, outcome) ==
    IF input_path \notin DOMAIN d \/ ~d[input_path].decodable
    THEN [ok |-> FALSE, disk |-> d]
    ELSE CASE outcome = "ok" ->
                 [ok |-> TRUE,
                  disk |-> WriteFile(d, output_path, Encoded(d[input_path], max_file_size_mb))]
           [] outcome = "encode_error" ->
                 [ok |-> FALSE,
                  disk |-> WriteFile(d, output_path,
                                     [Encoded(d[input_path], 0) EXCEPT !.decodable = FALSE])]
           [] OTHER -> [ok |-> FALSE, disk |-> d]

\* the statements of update_database_record: the attached file, and the
\* file name in the guid
RecordStatements(db, task) ==
    <<[field |-> "attached_file", value |-> task.optimized_file_path],
      [field |-> "guid",
       value |-> [DbVisible(db, task.attachment_id).guid EXCEPT
                     !.file = task.optimized_file_path]]>>

\* update_database_record: the statements and a commit, or a store error
\* after the first n statements, which is reported and nothing else
update_database_record(db, task, n) ==
    IF n = Len(RecordStatements(db, task))
    THEN [ok |-> TRUE,
          db |-> DbCommit(DbExecute(db, task.attachment_id, RecordStatements(db, task), n))]
    ELSE [ok |-> FALSE,
          db |-> DbExecute(db, task.attachment_id, RecordStatements(db, task), n)]

\* run_optimization up to the loop
EnhancedFetch ==
    /\ main_pc = "enh_fetch"
    /\ \/ /\ attachments' = EnhancedRows(inventory)
          /\ UNCHANGED faults
       \/ /\ faults < MaxFaults
          /\ faults' = faults + 1
          /\ attachments' = << >>
    /\ main_pc' = IF attachments' = << >> THEN "done" ELSE "enh_loop"
    /\ UNCHANGED <<disk, store, pending, plan_i, attachment_tasks,
                   processed_db_files, optimization_updates, update_info, counters,
                   to_walk, permalink_updates, outputs, fixed, threaded_only,
                   counter_vars, function_vars>>

\* process_attachment down to the backup: a record without a file on disk
\* is given up
EnhancedItem ==
    /\ main_pc = "enh_loop"
    /\ plan_i <= Len(attachments)
    /\ LET attachment == attachments[plan_i]
           found == FileFound(disk, attachment.file_path)
       IN  /\ attachment_tasks' = IF found
                                  THEN Append(attachment_tasks, EnhancedTask(attachment))
                                  ELSE attachment_tasks
           /\ update_info' = IF found THEN Append(update_info, {}) ELSE update_info
           /\ plan_i' = IF found THEN plan_i ELSE plan_i + 1
           /\ main_pc' = IF ~found THEN "enh_loop"
                         ELSE IF dry_run THEN "enh_permalink" ELSE "enh_backup"
    /\ UNCHANGED <<disk, store, pending, faults, attachments, processed_db_files,
                   optimization_updates, counters, to_walk, permalink_updates,
                   outputs, fixed, threaded_only, counter_vars, function_vars>>

\* shutil.copy2 to the backup name; if it raises, the except clause of
\* process_attachment ends the item
EnhancedBackup ==
    /\ main_pc = "enh_backup"
    /\ LET old == attachment_tasks[Current].old_file_path
       IN  \/ /\ disk' = WriteFile(disk, PrefixedBackupPath(old), disk[old])
              /\ main_pc' = "enh_convert"
              /\ UNCHANGED <<faults, counters, plan_i>>
           \/ /\ faults < MaxFaults
              /\ faults' = faults + 1
              /\ counters' = Increment(counters, "errors")
              /\ plan_i' = plan_i + 1
              /\ main_pc' = "enh_loop"
              /\ UNCHANGED disk
    /\ UNCHANGED <<store, pending, attachments, attachment_tasks,
                   processed_db_files, optimization_updates, update_info, to_walk,
                   permalink_updates, outputs, fixed, threaded_only, counter_vars, function_vars>>

\* the conversion; on failure process_attachment returns False
EnhancedConvert ==
    /\ main_pc = "enh_convert"
    /\ \E outcome \in {"ok", "decode_error", "encode_error"} :
          LET task == attachment_tasks[Current]
              r == enhanced_convert_to_webp(disk, task.old_file_path,
                                            task.optimized_file_path, outcome)
          IN  /\ outcome # "ok" => faults < MaxFaults
              /\ faults' = IF outcome = "ok" THEN faults ELSE faults + 1
              /\ disk' = r.disk
              /\ counters' = IF r.ok THEN Increment(counters, "webp_conversions")
                             ELSE counters
              /\ update_info' = IF r.ok
                                THEN [update_info EXCEPT ![Current] = @ \cup {"webp_converted"}]
                                ELSE update_info
              /\ main_pc' = IF r.ok THEN "enh_metadata" ELSE "enh_loop"
              /\ plan_i' = IF r.ok THEN plan_i ELSE plan_i + 1
    /\ UNCHANGED <<store, pending, attachments, attachment_tasks,
                   processed_db_files, optimization_updates, to_walk,
                   permalink_updates, outputs, fixed, threaded_only, counter_vars, function_vars>>

\* add_metadata_with_exiftool on the new file
EnhancedMetadata ==
    /\ main_pc = "enh_metadata"
    /\ \E tool_ok \in BOOLEAN :
          LET r == write_enhanced_iptc(disk, attachment_tasks[Current].optimized_file_path,
                                       tool_ok)
          IN  /\ ~tool_ok => faults < MaxFaults
              /\ faults' = IF tool_ok THEN faults ELSE faults + 1
              /\ disk' = r.disk
              /\ counters' = IF r.ok THEN Increment(counters, "iptc_processed")
                             ELSE counters
              /\ update_info' = IF r.ok
                                THEN [update_info EXCEPT ![Current] = @ \cup {"iptc_added"}]
                                ELSE update_info
    /\ main_pc' = "enh_permalink"
    /\ UNCHANGED <<store, pending, attachments, plan_i, attachment_tasks,
                   processed_db_files, optimization_updates, to_walk,
                   permalink_updates, outputs, fixed, threaded_only, counter_vars, function_vars>>

\* update_attachment_permalink: the slug is computed; in a live run
\* post_name is updated and committed, or the store fails before or after
\* the statement ran.  A dry run ends the item here.
update_attachment_permalink ==
    /\ main_pc = "enh_permalink"
    /\ LET task == attachment_tasks[Current]
       IN  \E query_ok \in BOOLEAN, n \in 0..2 :
              LET slug == ensure_unique_slug(Session, generate_seo_slug(task.title),
                                             task.attachment_id, query_ok)
                  written == DbExecute(Session, task.attachment_id,
                                       <<[field |-> "post_name", value |-> slug]>>,
                                       IF n = 0 THEN 0 ELSE 1)
              IN  /\ (~query_ok \/ n < 2) => faults < MaxFaults
                  /\ ~query_ok => n = 2
                  /\ dry_run => n = 2
                  /\ faults' = IF query_ok /\ n = 2 THEN faults ELSE faults + 1
                  /\ store' = IF dry_run THEN store
                              ELSE IF n = 2 THEN DbCommit(written).store ELSE store
                  /\ pending' = IF dry_run THEN pending
                                ELSE IF n = 2 THEN << >> ELSE written.pending
                  /\ permalink_updates' =
                        IF ~dry_run /\ n = 2
                        THEN permalink_updates \cup {task.attachment_id}
                        ELSE permalink_updates
                  /\ counters' =
                        IF dry_run THEN Increment(counters, "processed")
                        ELSE IF n = 2 THEN Increment(counters, "permalink_updates")
                        ELSE counters
                  /\ update_info' =
                        IF ~dry_run /\ n = 2
                        THEN [update_info EXCEPT ![Current] = @ \cup {"permalink_updated"}]
                        ELSE update_info
    /\ main_pc' = IF dry_run THEN "enh_loop" ELSE "enh_record"
    /\ plan_i' = IF dry_run THEN plan_i + 1 ELSE plan_i
    /\ UNCHANGED <<disk, attachments, attachment_tasks, processed_db_files,
                   optimization_updates, to_walk, outputs, fixed, threaded_only,
                   counter_vars, function_vars>>

EnhancedRecord ==
    /\ main_pc = "enh_record"
    /\ LET task == attachment_tasks[Current]
           total == Len(RecordStatements(Session, task))
       IN  \E n \in 0..total :
              LET r == update_database_record(Session, task, n)
              IN  /\ n < total => faults < MaxFaults
                  /\ faults' = IF n < total THEN faults + 1 ELSE faults
                  /\ store' = r.db.store
                  /\ pending' = r.db.pending
                  /\ update_info' =
                        IF r.ok
                        THEN [update_info EXCEPT ![Current] = @ \cup {"database_updated"}]
                        ELSE update_info
    /\ main_pc' = "enh_unlink"
    /\ UNCHANGED <<disk, attachments, plan_i, attachment_tasks, processed_db_files,
                   optimization_updates, counters, to_walk, permalink_updates,
                   outputs, fixed, threaded_only, counter_vars, function_vars>>

\* the original is removed if the new file is there under another name,
\* and the item is counted as processed
EnhancedUnlink ==
    /\ main_pc = "enh_unlink"
    /\ LET task == attachment_tasks[Current]
       IN  disk' = IF /\ task.optimized_file_path \in DOMAIN disk
                      /\ task.old_file_path # task.optimized_file_path
                   THEN RemoveFile(disk, task.old_file_path)
                   ELSE disk
    /\ counters' = Increment(counters, "processed")
    /\ plan_i' = plan_i + 1
    /\ main_pc' = "enh_loop"
    /\ UNCHANGED <<store, pending, faults, attachments, attachment_tasks,
                   processed_db_files, optimization_updates, update_info, to_walk,
                   permalink_updates, outputs, fixed, threaded_only, counter_vars, function_vars>>

\* after the loop: generate_htaccess_rules and generate_report
EnhancedFinish ==
    /\ main_pc = "enh_loop"
    /\ plan_i > Len(attachments)
    /\ outputs' = outputs \cup {"optimization_report_<timestamp>.txt"}
                    \cup (IF permalink_updates # {} /\ ~dry_run
                          THEN {".htaccess"} ELSE {})
    /\ main_pc' = "done"
    /\ UNCHANGED <<disk, store, pending, faults, attachments, plan_i,
                   attachment_tasks, processed_db_files, optimization_updates,
                   update_info, counters, to_walk, permalink_updates, fixed,
                   threaded_only, counter_vars, function_vars>>

InitEnhanced ==
    /\ dry_run \in BOOLEAN
    /\ \E sel \in Selections(Min(NumAttachments, Len(Catalog)), Len(Catalog))
                        \cup {<< >>} :
          InitRun(sel, "enhanced", "enh_fetch")

NextEnhanced ==
    \/ EnhancedFetch
    \/ EnhancedItem
    \/ EnhancedBackup
    \/ EnhancedConvert
    \/ EnhancedMetadata
    \/ update_attachment_permalink
    \/ EnhancedRecord
    \/ EnhancedUnlink
    \/ EnhancedFinish

SpecEnhanced == InitEnhanced /\ [][NextEnhanced]_vars

(***************************************************************************)
(* Any of the three programs.                                              *)
(***************************************************************************)
InitPipelines == Init \/ InitSequential \/ InitEnhanced

NextPipelines == Next \/ NextSequential \/ NextEnhanced

SpecPipelines == InitPipelines /\ [][NextPipelines]_vars

(***************************************************************************)
(* Properties of the threaded run.                                         *)
(***************************************************************************)
PipelineStages ==
    <<"validate", "backup", "convert", "iptc", "db_begin", "db_exec", "db_end">>

\* the position of a stage in the pipeline
StageRank(stage) == CHOOSE r \in 1..Len(PipelineStages) : PipelineStages[r] = stage

IsStage(x) == \E r \in 1..Len(PipelineStages) : PipelineStages[r] = x

\* the stages a worker has finished successfully enough to go on, in order
Finished(t) == SelectSeq(stages[t], IsStage)

\* the stages that must have succeeded before a stage may start; IPTC runs
\* only for tasks with keywords
Prerequisites(t, stage) ==
    { PipelineStages[r] : r \in 1..(StageRank(stage) - 1) }
        \ (IF attachment_tasks[t].keywords = << >> THEN {"iptc"} ELSE {})

\* the stages that reported success, from the outcome keys and the log
Succeeded(t, stage) ==
    /\ \E i \in 1..Len(Finished(t)) : Finished(t)[i] = stage
    /\ stage = "convert" => "webp_converted" \in update_info[t]
    /\ stage = "backup" => BackupPath(attachment_tasks[t].old_file_path) \in DOMAIN disk

\* C1: for every item the stages occur in the order validate, backup,
\* transcode, embed metadata, persist: the stages a worker has run are in
\* pipeline order without repetition, and the stage a worker is in, or has
\* run, is one whose preceding stages have all finished with success.
C1_StageOrder ==
    \A t \in DOMAIN stages :
        LET log == Finished(t)
        IN  /\ \A i, j \in 1..Len(log) :
                  i < j => StageRank(log[i]) < StageRank(log[j])
            /\ \A i \in 1..Len(log) :
                  \A pre \in Prerequisites(t, log[i]) : Succeeded(t, pre)
            /\ IsStage(pc[t]) =>
                  /\ \A i \in 1..Len(log) : StageRank(log[i]) < StageRank(pc[t])
                  /\ \A pre \in Prerequisites(t, pc[t]) : Succeeded(t, pre)

\* a task has run all seven stages while another worker is in the middle
\* of its own pipeline
C1_Witness ==
    \E t, u \in DOMAIN stages :
        /\ t # u
        /\ Finished(t) = PipelineStages
        /\ pc[u] \in {"backup", "convert", "iptc", "db_begin", "db_exec"}

\* C2: in a dry run of any of the programs (the threaded pipeline, the
\* sequential pipeline with or without the filesystem scan, the pipeline
\* with the permalink update), however far the run has got, the uploads
\* tree holds exactly the files it held when the run began, with their
\* contents, every store row is what it was, and no statement is left
\* uncommitted in the session.  (The report of the intended changes is
\* written outside the uploads tree and is not a file of the library.)
C2_DryRunMutatesNothing ==
    dry_run =>
        /\ disk = InitialDisk(inventory)
        /\ store = [k \in inventory |-> StoreRow(k)]
        /\ pending = << >>
        /\ ".htaccess" \notin outputs

\* a dry run of the sequential pipeline with the filesystem scan has
\* finished, having gone through records that needed work and through
\* files that the scan would convert
C2_Witness ==
    /\ dry_run
    /\ program = "sequential"
    /\ scan_filesystem
    /\ main_pc = "done"
    /\ counters["processed"] > 0
    /\ \E i \in 1..Len(optimization_updates) :
          "filesystem_only" \in optimization_updates[i].keys

\* how many times a worker took the task off the queue
Starts(t) == Len(SelectSeq(stages[t], LAMBDA x : x = "start"))

\* the tasks of the chunks before chunk k
EarlierChunks(k) == { t \in Tasks : t <= (k - 1) * ChunkSize }

\* C3: each planned task is submitted exactly once and started at most
\* once: never twice, and no task of a chunk that was passed, or of any
\* chunk once the run is over, is left without its submission and start.
C3_SubmittedExactlyOnce ==
    \A t \in DOMAIN submissions :
        /\ submissions[t] <= 1
        /\ Starts(t) <= submissions[t]
        /\ (main_pc = "done" \/ t \in EarlierChunks(chunk_idx)) =>
              submissions[t] = 1 /\ Starts(t) = 1
        /\ (main_pc = "collect" /\ t \in ChunkSet(chunk_idx)) => submissions[t] = 1

\* the run is over with three tasks in two chunks, each submitted once
C3_Witness ==
    /\ main_pc = "done"
    /\ Len(attachment_tasks) > ChunkSize
    /\ \A t \in Tasks : submissions[t] = 1 /\ Starts(t) = 1

AnyHung == \E t \in DOMAIN pc : pc[t] = "hung"

\* the entries of the output sequence that belong to task t
EntriesOf(t) ==
    { i \in 1..Len(optimization_updates) : optimization_updates[i].task = t }

AllResultsPresent ==
    /\ main_pc = "done"
    /\ \A t \in Tasks : Cardinality(EntriesOf(t)) = 1
    /\ Len(optimization_updates) = Len(attachment_tasks)

\* C4: provided every pipeline instance returns or raises (no worker
\* blocks for ever), the output sequence eventually holds exactly one
\* result for every dispatched task and the coordinator finishes.
C4_AllResultsEventually == <>(AnyHung \/ AllResultsPresent)

\* the coordinator has finished a run of two chunks, with the results of
\* the first chunk in the opposite of the submission order
C4_Witness ==
    /\ AllResultsPresent
    /\ Len(attachment_tasks) > ChunkSize
    /\ optimization_updates[1].task = 2

\* C5: an item whose pipeline does not return is recorded as a failed
\* result with a Timeout error and does not block the run: when nothing
\* more can happen, the run has finished and every task has its result.
C5_TimeoutDoesNotBlock == (~ENABLED Next) => (main_pc = "done" /\ AllResultsPresent)

RaisedOrHandled(t) ==
    \/ future[t] = "raised"
    \/ \E i \in 1..Len(stages[t]) : stages[t][i] = "exception"

\* C6: an exception raised inside a worker becomes a failed result of that
\* item: once the item's future was collected, the output sequence holds
\* one entry for the item and the entry carries the error, the errors
\* counter has counted it, and the main thread is still collecting,
\* submitting or done.
C6_ExceptionBecomesResult ==
    \A t \in yielded :
        RaisedOrHandled(t) =>
            /\ Cardinality(EntriesOf(t)) = 1
            /\ \A i \in EntriesOf(t) : "processing_error" \in optimization_updates[i].keys
            /\ counters["errors"] >= 1
            /\ main_pc \in {"collect", "submit", "done"}

\* the except clause of the main thread has turned a raised future into an
\* error entry and the run went on to finish the later chunk
C6_Witness ==
    /\ main_pc = "done"
    /\ \E t \in yielded :
          /\ future[t] = "raised"
          /\ \E i \in EntriesOf(t) : optimization_updates[i].copy
          /\ \E u \in yielded : u > t /\ Finished(u) = PipelineStages

RECURSIVE CompletedCalls(_)
\* the number of increment() calls that have returned, over the threads in ths
CompletedCalls(ths) ==
    IF ths = {} THEN 0
    ELSE LET th == CHOOSE x \in ths : TRUE
         IN  Len(returns[th]) + CompletedCalls(ths \ {th})

ReturnedValues == UNION { { returns[th][i] : i \in 1..Len(returns[th]) } : th \in Threads }

\* C7: no increment of a ThreadSafeCounter is lost: the value equals the
\* number of calls that have returned, plus the one call that has stored
\* its sum and not yet returned; the calls return pairwise distinct values,
\* namely 1 up to the number of completed calls.
C7_NoLostIncrement ==
    /\ value = CompletedCalls(Threads)
                 + Cardinality({ th \in Threads : tpc[th] = "return" })
    /\ Cardinality(ReturnedValues) = CompletedCalls(Threads)
    /\ ReturnedValues = 1..CompletedCalls(Threads)
    /\ (\A th \in Threads : tpc[th] = "idle") => value = CompletedCalls(Threads)

\* every thread has made all its calls, and the calls of two threads
\* alternated
C7_Witness ==
    /\ \A th \in Threads : Len(returns[th]) = IncrementsPerThread /\ tpc[th] = "idle"
    /\ value = NumThreads * IncrementsPerThread
    /\ \E th \in Threads : returns[th][1] = 1 /\ returns[th][2] > 2

\* C8: the destination paths of the tasks of one planning pass are
\* pairwise distinct.
C8_DestinationsDistinct ==
    \A t, u \in Tasks :
        t # u => attachment_tasks[t].optimized_file_path
                    # attachment_tasks[u].optimized_file_path

WritingStages == {"convert", "iptc"}

\* C9: no two workers are at the same time transcoding into, or embedding
\* metadata into, the same output file.
C9_NoConcurrentWritesToOnePath ==
    \A t, u \in Running :
        (t # u /\ pc[t] \in WritingStages /\ pc[u] \in WritingStages) =>
            attachment_tasks[t].optimized_file_path
                # attachment_tasks[u].optimized_file_path

\* C10: processing one asset never writes over a file that belongs to a
\* different asset: every file that was on disk when the run began and is
\* still there holds the image that was stored under its path, and not an
\* image made from another file.
C10_NoForeignOverwrite ==
    \A p \in DOMAIN InitialDisk(inventory) \cap DOMAIN disk :
        disk[p].origin = p

\* the step records the store update of task t as successful: the threaded
\* worker and the enhanced program note database_updated, the sequential
\* loop appends the item's result with permalink_updated
PersistRecorded(t) ==
    \/ /\ program \in {"threaded", "enhanced"}
       /\ t \in DOMAIN update_info
       /\ t \in DOMAIN update_info'
       /\ "database_updated" \in update_info'[t] \ update_info[t]
    \/ /\ program = "sequential"
       /\ main_pc = "seq_urls"
       /\ t = Current
       /\ Len(optimization_updates') = Len(optimization_updates) + 1
       /\ "permalink_updated" \in optimization_updates'[Len(optimization_updates')].keys

\* C11: in every program, at the step that records the store update of an
\* asset as successful, a file exists on disk at the asset's new path, the
\* path the store's attached-file now names.
C11_PersistedFileExists ==
    [][\A t \in 1..Len(attachment_tasks) :
          PersistRecorded(t) =>
              attachment_tasks[t].optimized_file_path \in DOMAIN disk']_vars

\* the fields of a store row that the persist sequence writes
PersistFields == {"guid", "attached_file", "alt_text", "optimizer_version", "optimizer_date"}

\* C12: the store writes for one asset are one transaction: once the store
\* update of an item has failed, none of its writes (guid, attached-file
\* path, alternate text, provenance markers) is in the store; the row holds
\* what it held before the run.
C12_FailedPersistLeavesNoWrite ==
    \A t \in DOMAIN update_info :
        "database_error" \in update_info[t] =>
            \A f \in PersistFields :
                store[attachment_tasks[t].attachment_id][f]
                    = StoreRow(attachment_tasks[t].attachment_id)[f]

\* a live threaded run is over and every item it planned went through all
\* its stages and was persisted
FullySuccessfulRun ==
    /\ program = "threaded"
    /\ ~dry_run
    /\ main_pc = "done"
    /\ attachment_tasks # << >>
    /\ \A t \in Tasks : "database_updated" \in update_info[t]

\* the records for which a planning pass over the store and the disk as
\* they are now emits a WorkItem
PlannedNow ==
    LET rows == RowsDescending(inventory)
    IN  { rows[i].ID : i \in { j \in 1..Len(rows) :
                                  /\ rows[j].attached_file \in DOMAIN disk
                                  /\ NeedsOptimization(rows[j]) } }

\* C13: after a fully successful live run, a second run started at once on
\* the same inventory plans nothing: every record is a Skip.
C13_SecondRunPlansNothing == FullySuccessfulRun => PlannedNow = {}

\* the planner of the threaded or of the sequential program is at a record
PlannerAtRecord ==
    /\ main_pc \in {"plan", "seq_loop"}
    /\ plan_i <= Len(attachments)

\* the source formats the running program converts
ConvertibleExtensions ==
    IF program = "sequential" THEN SequentialWebpExtensions ELSE WebpSourceExtensions

\* at least one of: rename needed, format conversion needed, alternate
\* text differs, keyword set non-empty
SomethingToDo(a) ==
    \/ clean_filename(a.attached_file.stem) # a.attached_file.stem
    \/ a.attached_file.ext \in ConvertibleExtensions
    \/ a.alt_text # << >> /\ clean_alt_text(a.alt_text) # a.alt_text
    \/ process_categories_to_keywords(a.categories) # << >>

\* the no-op input: the name is already the derived name, the format is the
\* target codec, the alternate text is unchanged, there are no keywords
AlreadySatisfied(a) ==
    /\ clean_filename(a.attached_file.stem) = a.attached_file.stem
    /\ a.attached_file.ext = ".webp"
    /\ a.alt_text = << >> \/ clean_alt_text(a.alt_text) = a.alt_text
    /\ process_categories_to_keywords(a.categories) = << >>

\* the step appends a WorkItem for the record a
EmitsWorkItem(a) ==
    /\ Len(attachment_tasks') = Len(attachment_tasks) + 1
    /\ attachment_tasks'[Len(attachment_tasks')].attachment_id = a.ID

BackupAsReported(r, source, backup_path) ==
    r.ok => /\ backup_path \in DOMAIN r.disk
            /\ r.disk[backup_path].size = source.size

\* C15: every Backup stage that reports success has left the backup under
\* its final name with the byte size of the source at that time; a backup
\* of another size is never reported as successful.  For the threaded
\* worker the stage's report is its move to the conversion; for the
\* sequential backup, whose result the loop does not look at, it is the
\* function's return value.
C15_SuccessfulBackupIsWhole ==
    [][/\ \A t \in DOMAIN pc \cap DOMAIN pc' :
             (pc[t] = "backup" /\ pc'[t] = "convert") =>
                 LET f == attachment_tasks[t].old_file_path
                 IN  /\ BackupPath(f) \in DOMAIN disk'
                     /\ disk'[BackupPath(f)].size = disk[f].size
                     /\ \A outcome \in BackupOutcomes :
                           BackupAsReported(
                               create_backup_copy_threadsafe(disk, f, outcome),
                               disk[f], BackupPath(f))
       /\ main_pc = "seq_backup" =>
             LET f == attachment_tasks[Current].old_file_path
             IN  \A outcome \in {"ok", "copy_error", "size_mismatch"} :
                    BackupAsReported(create_backup_copy(disk, f, outcome),
                                     disk[f], TimestampedBackupPath(f))]_vars

\* a threaded worker has made its backup and is at the conversion
C15_Witness ==
    \E t \in DOMAIN pc :
        /\ pc[t] = "convert"
        /\ BackupPath(attachment_tasks[t].old_file_path) \in DOMAIN disk

\* the stages task t has been through
StagesRun(t) == { stages[t][i] : i \in 1..Len(stages[t]) }

\* the Embed Metadata stage of task t ran and failed
MetadataFailed(t) == "iptc" \in StagesRun(t) /\ "iptc_added" \notin update_info[t]

\* what a result says about the metadata stage: the keys of update_info
\* that the stage writes
MetadataRecord(keys) == keys \cap {"iptc_added"}

\* the item went on to the Persist stage after its metadata stage
AdvancedToPersist(t) ==
    \/ pc[t] \in {"db_begin", "db_exec", "db_end", "hung"}
    \/ "db_begin" \in StagesRun(t)

\* a failure of the Embed Metadata stage is not fatal: the item still
\* advances to the Persist stage
MetadataFailureAdvances ==
    \A t \in DOMAIN stages : MetadataFailed(t) => AdvancedToPersist(t)

\* C16: a failure of the Embed Metadata stage is not fatal, the item goes
\* on to Persist, and its result records the metadata as failed: what the
\* result says about the metadata differs from what it says when the
\* metadata succeeded (iptc_added) and when it was not attempted (nothing).
C16_MetadataFailureRecorded ==
    \A t \in DOMAIN stages :
        MetadataFailed(t) =>
            /\ AdvancedToPersist(t)
            /\ MetadataRecord(update_info[t]) \notin {{}, {"iptc_added"}}

\* the step is the Validate stage of task t failing: the worker returns
\* from validate, and not because the run is a dry run
ValidateFails(t) ==
    /\ t \in DOMAIN pc
    /\ pc[t] = "validate"
    /\ pc'[t] = "returned"
    /\ "dry_run" \notin update_info'[t]

\* when Validate fails the worker returns the partial result at once: no
\* backup, no output, no store write, no conversion counted
ValidateFailureSkipsStages ==
    [][\A t \in DOMAIN pc :
          ValidateFails(t) =>
              /\ disk' = disk
              /\ store' = store
              /\ pending' = pending
              /\ future'[t] = "returned"
              /\ update_info'[t] = update_info[t]
              /\ counters'["webp_conversions"] = counters["webp_conversions"]
              /\ counters'["processed"] = counters["processed"]]_vars

\* C17: when Validate fails for an item, the remaining stages are skipped
\* (no backup, no output, no store write), the partial result is returned,
\* the item is not counted as converted or processed, and it is counted as
\* skipped: some counter other than the conversion counters goes up by
\* one for it.
C17_InvalidItemIsSkippedAndCounted ==
    [][\A t \in DOMAIN pc :
          ValidateFails(t) =>
              /\ disk' = disk
              /\ store' = store
              /\ pending' = pending
              /\ future'[t] = "returned"
              /\ update_info'[t] = update_info[t]
              /\ counters'["webp_conversions"] = counters["webp_conversions"]
              /\ counters'["processed"] = counters["processed"]
              /\ \E n \in CounterNames \ {"webp_conversions", "processed"} :
                    counters'[n] = counters[n] + 1]_vars

\* C18: Transcode succeeds only with an output under the ceiling: when the
\* first encoding is over the configured maximum size the pipeline encodes
\* once more at the fallback quality, and if the output is still over the
\* ceiling the conversion is not reported as a success (EncodeFailed).  So
\* at every step that records a conversion as done, the output file is
\* within the ceiling.
C18_ConvertedOutputWithinCeiling ==
    [][\A t \in DOMAIN update_info \cap DOMAIN update_info' :
          "webp_converted" \in update_info'[t] \ update_info[t] =>
              /\ attachment_tasks[t].optimized_file_path \in DOMAIN disk'
              /\ disk'[attachment_tasks[t].optimized_file_path].size
                    <= max_file_size_mb]_vars

\* the record's path does not resolve to a file
SourceFileMissing(a) == Catalog[a.ID].state = "missing"

\* the records of the inventory the run has to work on: the file is there
\* and, for the two planners, something is to do
HasWork(a) ==
    /\ ~SourceFileMissing(a)
    /\ program = "enhanced" \/ SomethingToDo(a)

\* C19: a record whose path does not resolve to an existing file is a
\* Skip: no WorkItem is ever emitted for it and no stage runs for it (its
\* store row is never written), and the run is not aborted: when the run is
\* over, the loop has gone through the whole inventory and every other
\* record that needed work has its WorkItem.
C19_MissingFileIsSkipped ==
    /\ \A i \in 1..Len(attachments) :
          SourceFileMissing(attachments[i]) =>
              /\ \A t \in Tasks : attachment_tasks[t].attachment_id # attachments[i].ID
              /\ store[attachments[i].ID] = StoreRow(attachments[i].ID)
              /\ attachments[i].ID \notin DOMAIN pending
    /\ (main_pc = "done" /\ attachments # << >>) =>
          /\ plan_i > Len(attachments)
          /\ \A i \in 1..Len(attachments) :
                HasWork(attachments[i]) =>
                    \E t \in Tasks : attachment_tasks[t].attachment_id = attachments[i].ID

\* a run is over in which a record without a file came before a record
\* that was then worked on
C19_Witness ==
    /\ main_pc = "done"
    /\ \E i, j \in 1..Len(attachments) :
          /\ i < j
          /\ SourceFileMissing(attachments[i])
          /\ \E t \in Tasks : attachment_tasks[t].attachment_id = attachments[j].ID

\* the Inventory Source has answered
InventoryAnswered == main_pc \notin {"fetch", "seq_fetch", "enh_fetch"}

\* C20: the Inventory Source distinguishes failure from emptiness: the run
\* is handed the empty sequence, and treated as a run over an empty
\* inventory, only when the query succeeded and the store holds no
\* attachment; a query that failed is never taken for an empty inventory.
C20_EmptyOnlyWhenInventoryEmpty ==
    (InventoryAnswered /\ attachments = << >>) => inventory = {}

(***************************************************************************)
(* The exit status of the two entry points.                                *)
(***************************************************************************)
\* the status the process ends with once the run is over: main of the
\* sequential program falls off its end after process_media_optimization
\* returned, main of the enhanced program calls sys.exit(1) when
\* run_optimization returned False, which it does for an empty list of
\* attachments
exit_status ==
    IF program = "enhanced"
    THEN IF attachments = << >> THEN 1 ELSE 0
    ELSE 0

\* the run of one of the two entry points is over
RunOver == program \in {"sequential", "enhanced"} /\ main_pc = "done"

\* the inventory query failed: the store holds attachments and none came back
InventoryQueryFailed == attachments = << >> /\ inventory # {}

\* C21: the process exits with 0 whenever the run completes, with item
\* failures or with an empty inventory, and with a non-zero status only on
\* a setup-level failure, here an inventory source that cannot be queried.
C21_ExitStatus ==
    RunOver => (exit_status # 0 <=> InventoryQueryFailed)

\* the worker of task t is using the store connection: it has taken a
\* cursor and set the session's autocommit mode, and has not reset it yet
UsingConnection(t) == t \in DOMAIN pc /\ pc[t] \in {"db_exec", "db_end"}

\* C22: each worker uses its own store connection: no store connection,
\* and none of its session settings such as the autocommit mode, is used by
\* two workers at the same time.  The run has one connection, so at most
\* one worker may be using it.
C22_OneWorkerPerConnection ==
    \A t, u \in DOMAIN pc : (UsingConnection(t) /\ UsingConnection(u)) => t = u

\* the tasks whose pipeline instance is executing on a pool thread: taken
\* off the queue and not yet returned or raised (a pipeline that never
\* returns keeps its thread)
Executing == { t \in DOMAIN pc : pc[t] \notin {"idle", "returned", "raised"} }

\* C23: parallelism is bounded: at every moment of a run the number of
\* pipeline instances executing concurrently is at most the configured
\* worker count.
C23_ParallelismBounded == Cardinality(Executing) <= MaxWorkers

\* the pool is saturated while a submitted task of the chunk waits
C23_Witness ==
    /\ Cardinality(Executing) = MaxWorkers
    /\ \E t \in DOMAIN future : future[t] = "pending"

\* the files the scan takes up in this step
ScannedNow == IF main_pc = "scan" THEN to_walk \ to_walk' ELSE {}

\* the files the scan must leave alone: the paths the loop over the
\* attachments saw, and the files in the target format
NotForScan == processed_db_files \cup { p \in DOMAIN disk : p.ext = ".webp" }

\* C24: the Reconciliation Scanner runs only after the primary pass has
\* finished, with the source path of every inventory record in the
\* already-seen set, and it never processes a file the primary pass saw:
\* no path of the already-seen set, and no file in the target format, is
\* taken up, backed up or reported by the scan.
C24_ScanSkipsSeenFiles ==
    [][/\ main_pc' = "scan" =>
            /\ plan_i' > Len(attachments')
            /\ \A i \in 1..Len(attachments') :
                  attachments'[i].attached_file \in processed_db_files'
       /\ ScannedNow # {} =>
            /\ ScannedNow \cap NotForScan = {}
            /\ Len(optimization_updates') = Len(optimization_updates) + 1
            /\ \A p \in NotForScan :
                  TimestampedBackupPath(p) \in DOMAIN disk' =>
                      TimestampedBackupPath(p) \in DOMAIN disk]_vars

\* the scan is over, it has taken a file up, and a file the primary pass
\* saw, with a name the scan looks for, is on disk
C24_Witness ==
    /\ main_pc = "report"
    /\ scan_filesystem
    /\ \E i \in 1..Len(optimization_updates) :
          "filesystem_only" \in optimization_updates[i].keys
    /\ \E p \in processed_db_files \cap DOMAIN disk : IsScanCandidateIgnoringSeen(p)

\* what the scan leaves of the orphan file_path when nothing goes wrong:
\* its backup, whole, and its conversion with the metadata in it
OrphanProcessed(d, e, file_path) ==
    LET backup_path == TimestampedBackupPath(file_path)
        new_file_path == File(clean_filename(file_path.stem), ".webp")
    IN  /\ backup_path \in DOMAIN e
        /\ e[backup_path].size = d[file_path].size
        /\ new_file_path \in DOMAIN e
        /\ e[new_file_path].webp
        /\ e[new_file_path].origin = d[file_path].origin
        /\ e[new_file_path].iptc

\* C25: for a filesystem-only candidate in live mode, the scan performs
\* backup, transcode and metadata embedding but none of the store-write
\* stages: processing an orphan leaves every store row unchanged.
C25_OrphanLeavesStoreUnchanged ==
    [][\A file_path \in ScannedNow :
          ~dry_run =>
              /\ store' = store
              /\ pending' = pending
              /\ "filesystem_only" \in
                    optimization_updates'[Len(optimization_updates')].keys
              /\ (faults' = faults /\ disk[file_path].decodable) =>
                    OrphanProcessed(disk, disk', file_path)]_vars

\* a live scan has converted an orphan after the primary pass wrote to the
\* store
C25_Witness ==
    /\ main_pc = "report"
    /\ ~dry_run
    /\ \E i \in 1..Len(optimization_updates) :
          {"filesystem_only", "webp_converted"} \subseteq optimization_updates[i].keys
    /\ \E k \in inventory : store[k] # StoreRow(k)

\* the step is the Backup or the Transcode stage of task t failing: the
\* worker returns from the stage instead of going on
StageFails(t) ==
    /\ t \in DOMAIN pc
    /\ pc[t] \in {"backup", "convert"}
    /\ pc'[t] = "returned"

\* when Backup or Transcode fails no later stage runs for the item, the
\* errors counter goes up by one, and the other items are left as they are
StageFailureStopsPipeline ==
    [][\A t \in DOMAIN pc :
          StageFails(t) =>
              /\ future'[t] = "returned"
              /\ store' = store
              /\ pending' = pending
              /\ counters'["errors"] = counters["errors"] + 1
              /\ counters'["processed"] = counters["processed"]
              /\ main_pc' = main_pc
              /\ \A u \in DOMAIN pc \ {t} : pc'[u] = pc[u] /\ future'[u] = future[u]]_vars

\* C26: when the Backup or Transcode stage fails for an item of the
\* threaded pipeline, no later stage runs for it, the errors counter is
\* incremented, the run continues with the other items, and the item's
\* result is recorded as failed: the failing stage leaves a mark in the
\* result.
C26_StageFailureRecorded ==
    [][\A t \in DOMAIN pc :
          StageFails(t) =>
              /\ future'[t] = "returned"
              /\ store' = store
              /\ pending' = pending
              /\ counters'["errors"] = counters["errors"] + 1
              /\ \A u \in DOMAIN pc \ {t} : pc'[u] = pc[u] /\ future'[u] = future[u]
              /\ update_info'[t] # update_info[t]]_vars

\* the backup of source is on disk, whole
BackupWhole(source) ==
    /\ source \in DOMAIN disk
    /\ TimestampedBackupPath(source) \in DOMAIN disk
    /\ disk[TimestampedBackupPath(source)].size = disk[source].size

\* C27: in the sequential pipeline each stage is gated on the previous one
\* succeeding: the conversion of an item is attempted only after its
\* backup succeeded, and its store update is attempted only after its
\* conversion, where one was needed, succeeded.
C27_SequentialStagesGated ==
    program = "sequential" =>
        /\ main_pc = "seq_convert" =>
              BackupWhole(attachment_tasks[Current].old_file_path)
        /\ (main_pc \in {"seq_metadata", "seq_urls"}
               /\ attachment_tasks[Current].needs_webp) =>
              "webp_converted" \in update_info[Current]

\* the step is create_backup_copy_threadsafe reporting failure for task t
BackupFails(t) == t \in DOMAIN pc /\ pc[t] = "backup" /\ pc'[t] = "returned"

\* a backup that is reported failed leaves no file under the final name
FailedBackupLeavesNoFinalName ==
    [][\A t \in DOMAIN pc :
          BackupFails(t) =>
              BackupPath(attachment_tasks[t].old_file_path) \notin DOMAIN disk']_vars

\* C28: whenever create_backup_copy_threadsafe reports failure, the
\* temporary backup artifact no longer exists on disk and no file exists
\* under the final backup name.
C28_FailedBackupLeavesNothing ==
    [][\A t \in DOMAIN pc :
          BackupFails(t) =>
              /\ TempBackupPath(attachment_tasks[t].old_file_path) \notin DOMAIN disk'
              /\ BackupPath(attachment_tasks[t].old_file_path) \notin DOMAIN disk']_vars

\* the step is the Persist stage of task t failing: update_database_threadsafe
\* returned False and the worker marks the result
PersistFails(t) ==
    /\ t \in DOMAIN update_info
    /\ t \in DOMAIN update_info'
    /\ "database_error" \in update_info'[t] \ update_info[t]

\* C29: when the Persist stage fails for an item, the failure is surfaced
\* in the item's result (database_error) and in the errors counter, the
\* processed counter is not incremented for it, neither then nor later,
\* and the converted file already written is left in place.
C29_PersistFailureSurfaced ==
    [][\A t \in DOMAIN update_info :
          /\ PersistFails(t) =>
                /\ counters'["errors"] = counters["errors"] + 1
                /\ counters'["processed"] = counters["processed"]
                /\ pc'[t] = "returned"
                /\ future'[t] = "returned"
                /\ disk' = disk
                /\ attachment_tasks[t].optimized_file_path \in DOMAIN disk'
          /\ "database_error" \in update_info[t] =>
                /\ "database_error" \in update_info'[t]
                /\ "database_updated" \notin update_info'[t]
                /\ pc'[t] = pc[t]]_vars

\* the store update of an item failed, the run went on and is over, and
\* the item's converted file is on disk
C29_Witness ==
    /\ main_pc = "done"
    /\ \E t \in DOMAIN update_info :
          /\ "database_error" \in update_info[t]
          /\ "webp_converted" \in update_info[t]
          /\ attachment_tasks[t].optimized_file_path \in DOMAIN disk
          /\ counters["errors"] = 1

\* the entry the coordinator appended is still what it was; an entry that
\* is the worker's own update_info, and not a copy, is that object, so it
\* is unchanged only if that update_info is
EntryUntouched(i) ==
    /\ i <= Len(optimization_updates')
    /\ optimization_updates'[i] = optimization_updates[i]
    /\ ~optimization_updates[i].copy =>
          update_info'[optimization_updates[i].task] = optimization_updates[i].keys

\* the step is a step of the worker of task t
WorkerStep(t) == t \in DOMAIN pc /\ t \in DOMAIN pc' /\ pc'[t] # pc[t]

\* C30: a result is produced by exactly one worker and is never mutated
\* after creation: no task has two entries in the output sequence, once an
\* entry has been appended no step changes any field of it, and a step of
\* the worker of one item changes neither the WorkItems nor the result of
\* another item.
C30_ResultsAreWriteOnce ==
    [][/\ \A i, j \in 1..Len(optimization_updates) :
             optimization_updates[i].task = optimization_updates[j].task => i = j
       /\ \A i \in 1..Len(optimization_updates) : EntryUntouched(i)
       /\ \A t \in DOMAIN pc :
             WorkerStep(t) =>
                 /\ attachment_tasks' = attachment_tasks
                 /\ \A u \in DOMAIN update_info \ {t} :
                       update_info'[u] = update_info[u]]_vars

\* two results are in the output sequence, one of them with what its
\* worker recorded, while another worker is still running
C30_Witness ==
    /\ Len(optimization_updates) >= 2
    /\ \E i \in 1..Len(optimization_updates) :
          /\ ~optimization_updates[i].copy
          /\ optimization_updates[i].keys # {}
    /\ \E t \in DOMAIN pc : pc[t] \in {"convert", "db_exec"}

\* the enhanced program is between two items, or over
EnhancedBetweenItems == program = "enhanced" /\ main_pc \in {"enh_loop", "done"}

\* C31: after any item finishes processing in the enhanced pipeline,
\* whether its store update succeeded or failed, the store's attached-file
\* reference of every asset whose file was there when the run began
\* resolves to a file that exists on disk.
C31_StoreReferenceResolves ==
    EnhancedBetweenItems =>
        \A k \in inventory :
            Catalog[k].state # "missing" => store[k].attached_file \in DOMAIN disk

\* every store write of task t is in the committed store
WritesCommitted(t) ==
    LET task == attachment_tasks[t]
        stmts == Statements(task)
    IN  \A n \in 1..Len(stmts) :
            store[task.attachment_id][stmts[n].field] = stmts[n].value

\* C32: whenever update_database_threadsafe returned success for an item
\* and the item is counted as processed, all of the item's store writes are
\* committed in the store, under every interleaving of the workers that
\* share the connection and toggle its autocommit mode.
C32_SuccessMeansCommitted ==
    \A t \in DOMAIN update_info :
        "database_updated" \in update_info[t] => WritesCommitted(t)

\* the dispatched items whose pipeline is over
PipelineOver == { t \in DOMAIN pc : pc[t] \in {"returned", "raised"} }

C34_CountedAfterConversion ==
    (program = "threaded" /\ ~dry_run) =>
        /\ counters["iptc_processed"] <= counters["webp_conversions"]
        /\ counters["processed"] <= counters["webp_conversions"]

\* a live run in which items were converted, one had its metadata written
\* and one was processed, and one converted item was not processed
C34_Witness ==
    /\ program = "threaded"
    /\ ~dry_run
    /\ main_pc = "done"
    /\ counters["iptc_processed"] >= 1
    /\ counters["processed"] >= 1
    /\ counters["webp_conversions"] > counters["processed"]

\* the chunk task t belongs to
ChunkOf(t) == ((t - 1) \div ChunkSize) + 1

\* the item was submitted and its pipeline is not over
InFlight(t) == t \in DOMAIN future /\ future[t] \in {"pending", "running"}

\* the result of task t is in the output sequence
Collected(t) ==
    \E i \in 1..Len(optimization_updates) : optimization_updates[i].task = t

\* C35: chunks are a barrier: the coordinator submits the items of chunk
\* k+1 only after every item of chunk k has finished and its result has
\* been collected, so items of two different chunks never run
\* concurrently.
C35_ChunksAreABarrier ==
    \A t \in DOMAIN future :
        future[t] # "none" =>
            /\ \A u \in DOMAIN future :
                  ChunkOf(u) < ChunkOf(t) => ~InFlight(u) /\ Collected(u)
            /\ \A u \in DOMAIN future :
                  (InFlight(t) /\ InFlight(u)) => ChunkOf(t) = ChunkOf(u)

\* an item of the second chunk runs, the first chunk being collected
C35_Witness ==
    \E t \in DOMAIN future :
        /\ ChunkOf(t) = 2
        /\ future[t] = "running"
        /\ \A u \in DOMAIN future : ChunkOf(u) = 1 => Collected(u)

\* the chunks 1..k of n items, one after the other
RECURSIVE ChunksConcatenated(_, _)
ChunksConcatenated(k, n) ==
    IF k = 0 THEN << >> ELSE ChunksConcatenated(k - 1, n) \o ChunkItems(k, n)

\* C36: the chunks partition the planned items: concatenating the chunks
\* in order gives back the planned item sequence, every chunk is
\* non-empty, every chunk has at most chunk_size items and every chunk
\* except possibly the last has exactly chunk_size items.
C36_ChunksPartitionTheItems ==
    LET n == Len(attachment_tasks)
    IN  /\ ChunksConcatenated(NumChunks(n), n) = [i \in 1..n |-> i]
        /\ \A k \in 1..NumChunks(n) :
              /\ Len(ChunkItems(k, n)) >= 1
              /\ Len(ChunkItems(k, n)) <= ChunkSize
              /\ k < NumChunks(n) => Len(ChunkItems(k, n)) = ChunkSize

\* the coordinator is at the last chunk of a plan of more than one chunk,
\* and the last chunk is not full
C36_Witness ==
    /\ main_pc = "collect"
    /\ chunk_idx = NumChunks(Len(attachment_tasks))
    /\ chunk_idx > 1
    /\ Len(ChunkItems(chunk_idx, Len(attachment_tasks))) < ChunkSize

\* the post whose post_name this step of update_attachment_permalink wrote
RenamedNow ==
    IF main_pc = "enh_permalink"
    THEN { k \in DOMAIN store : store'[k].post_name # store[k].post_name }
    ELSE {}

\* C37: ensure_unique_slug returns a slug that is not the post_name of any
\* other post in the store: after update_attachment_permalink has written
\* a post's new post_name, no other post has that post_name.
C37_SlugIsUnique ==
    [][\A k \in RenamedNow :
          \A j \in DOMAIN store' \ {k} : store'[j].post_name # store'[k].post_name]_vars

(***************************************************************************)
(* The pure functions under test: clean_filename,                          *)
(* process_categories_to_keywords and adaptive_resize_image, each called   *)
(* on every input of a bounded set.                                        *)
(***************************************************************************)
\* the longest file name tried
MaxLen == 3
\* the characters of the file names tried
FilenameChars == {"a", "b", "A", "!", "-", " "}

Filenames == UNION { [1..n -> FilenameChars] : n \in 0..MaxLen }

\* the longest category list tried
MaxCategories == 14

\* the i-th label of the lists tried: every fifth label repeats the one
\* before it in upper case and with white space around it
CategoryLabel(i) ==
    IF i % 5 = 0
    THEN <<" ", "M", "A", "B">> \o NumStr(i - 1) \o <<" ">>
    ELSE <<"m", "a", "b">> \o NumStr(i)

\* the category lists tried: the labels i..j
CategoryLists ==
    { [k \in 1..(j - i + 1) |-> CategoryLabel(i + k - 1)] :
         i \in 1..(MaxCategories + 1), j \in 0..MaxCategories }

\* the largest image side and the largest configured maximum tried
MaxDimension == 6
MaxSide == 3

\* int(side * resize_ratio) with resize_ratio = max_side / other: the
\* quotient rounded towards zero (for sides of this size the float product
\* and the exact quotient have the same integer part)
IntOfProduct(num, den) == num \div den

\* adaptive_resize_image: the size of the image it returns
adaptive_resize_image(original_width, original_height, max_width, max_height) ==
    IF original_width <= max_width /\ original_height <= max_height
    THEN [width |-> original_width, height |-> original_height]
    ELSE IF max_width * original_height <= max_height * original_width
         THEN \* resize_ratio = width_ratio
              [width  |-> IntOfProduct(original_width * max_width, original_width),
               height |-> IntOfProduct(original_height * max_width, original_width)]
         ELSE \* resize_ratio = height_ratio
              [width  |-> IntOfProduct(original_width * max_height, original_height),
               height |-> IntOfProduct(original_height * max_height, original_height)]

\* clean_filename on the name, then on what it returned: the next
\* planning pass sees the cleaned name
CallCleanFilename ==
    /\ fn_call.fn = "clean_filename"
    /\ Len(fn_results) < 2
    /\ fn_results' =
          Append(fn_results,
                 clean_filename(IF fn_results = << >> THEN fn_call.arg
                                ELSE fn_results[Len(fn_results)]))
    /\ UNCHANGED <<fn_call, run_vars, counter_vars>>

CallKeywords ==
    /\ fn_call.fn = "process_categories_to_keywords"
    /\ fn_results = << >>
    /\ fn_results' = <<process_categories_to_keywords(fn_call.arg)>>
    /\ UNCHANGED <<fn_call, run_vars, counter_vars>>

CallResize ==
    /\ fn_call.fn = "adaptive_resize_image"
    /\ fn_results = << >>
    /\ fn_results' = <<adaptive_resize_image(fn_call.arg.width, fn_call.arg.height,
                                           fn_call.arg.max_width,
                                           fn_call.arg.max_height)>>
    /\ UNCHANGED <<fn_call, run_vars, counter_vars>>

InitFunctions ==
    /\ dry_run = FALSE
    /\ InitState(<<1>>, "functions", "done")
    /\ fn_results = << >>
    /\ \/ \E filename \in Filenames :
             fn_call = [fn |-> "clean_filename", arg |-> filename]
       \/ \E categories \in CategoryLists :
             fn_call = [fn |-> "process_categories_to_keywords", arg |-> categories]
       \/ \E w, h \in 1..MaxDimension, mw, mh \in 1..MaxSide :
             fn_call = [fn |-> "adaptive_resize_image",
                        arg |-> [width |-> w, height |-> h,
                                 max_width |-> mw, max_height |-> mh]]

NextFunctions == CallCleanFilename \/ CallKeywords \/ CallResize

SpecFunctions == InitFunctions /\ [][NextFunctions]_vars

\* C38: clean_filename is idempotent: cleaning a cleaned file name gives
\* the same name, so an already-cleaned file name never needs a rename on
\* the next planning pass.
C38_CleanFilenameIdempotent ==
    (fn_call.fn = "clean_filename" /\ Len(fn_results) = 2) =>
        fn_results[2] = fn_results[1]

\* C39: the keyword list made from an item's category labels has at most
\* max_keywords entries and no keyword twice.
C39_KeywordsCappedAndDistinct ==
    (fn_call.fn = "process_categories_to_keywords" /\ fn_results # << >>) =>
        LET keywords == fn_results[1]
        IN  /\ Len(keywords) <= max_keywords
            /\ \A i, j \in 1..Len(keywords) :
                   keywords[i] = keywords[j] => i = j

\* more labels than max_keywords, two of the first max_keywords with the
\* same keyword, and the keywords made
C39_Witness ==
    /\ fn_call.fn = "process_categories_to_keywords"
    /\ fn_results # << >>
    /\ Len(fn_call.arg) > max_keywords
    /\ \E i, j \in 1..max_keywords :
          i < j /\ KeywordOf(fn_call.arg[i]) = KeywordOf(fn_call.arg[j])
    /\ Len(fn_results[1]) > 2

\* C40: adaptive resize returns the image unchanged when both sides are
\* within the maxima; otherwise both sides are scaled by the smaller of
\* max_width / width and max_height / height, and the result has
\* width <= max_width, height <= max_height and both sides at least 1.
C40_ResizeWithinMaximaAndPositive ==
    (fn_call.fn = "adaptive_resize_image" /\ fn_results # << >>) =>
        LET img  == fn_call.arg
            size == fn_results[1]
        IN  /\ (img.width <= img.max_width /\ img.height <= img.max_height)
                   => size = [width |-> img.width, height |-> img.height]
            /\ size.width <= img.max_width
            /\ size.height <= img.max_height
            /\ size.width >= 1
            /\ size.height >= 1

=============================================================================
